---- MODULE Spec2Model ----
(***************************************************************************)
(* Invoice-factoring marketplace: the invoice registry                     *)
(* (contracts/invoice), the marketplace (contracts/marketplace) and the    *)
(* escrow engine (contracts/escrow) as one state machine.                  *)
(*                                                                         *)
(* Execution model (NEAR): every method call is one receipt, executed to   *)
(* completion.  A receipt that panics (a failed assert!, expect or         *)
(* env::panic_str) commits none of its state changes and schedules none of *)
(* its promises.  A promise chain a.then(b).then(c) runs a, then b, then   *)
(* c, each as a receipt of its own; b runs whether or not a failed, and    *)
(* only a callback declared with #[callback_result] sees a's outcome.      *)
(***************************************************************************)
EXTENDS Integers, Sequences, FiniteSets, TLC

\* ------------------------------------------------------------- bounds
\* ids of invoices, listings and bids; the last block timestamp
MaxInvoices == 1
MaxListings == 2
MaxBids == 1
MaxTime == 1
\* the whole system (Spec): listings created, promise chains in flight at
\* once
SysListings == 1
SysPending == 2
\* the four ledgers together (SpecLedgers): invoices, bids and escrows
\* created
MaxRecords == 2

\* ----------------------------------------------------------- accounts
Users == {"alice", "bob"}
INVOICE == "invoice"
MARKETPLACE == "marketplace"
ESCROW == "escrow"
USDC == "usdc"
ADMIN == "admin"

None == -1

InvoiceIds == 1..MaxInvoices
ListingIds == 1..MaxListings
BidIds == 1..MaxBids
\* at most one escrow is ever created per invoice id
EscrowIds == 1..MaxInvoices

VARIABLES
    now,                    \* the block timestamp, counted in seconds
    \* invoice registry
    invoices,               \* id -> Invoice, for id in 1..invoice_count
    invoice_count,
    inv_marketplace_contract,
    inv_escrow_contract,
    \* marketplace
    listings,               \* id -> Listing (a rolled back id is absent)
    listings_by_invoice,    \* invoice id -> listing id, or None
    bids,                   \* listing id -> sequence of Bid
    listing_count,
    bid_count,
    \* escrow engine
    escrows,                \* id -> EscrowEntry, for id in 1..escrow_count
    escrows_by_invoice,     \* invoice id -> escrow id, or None
    escrow_count,
    \* runtime
    promises,               \* the promise chains in flight
    last                    \* the receipt executed last

invVars == <<invoices, invoice_count, inv_marketplace_contract, inv_escrow_contract>>
mktVars == <<listings, listings_by_invoice, bids, listing_count, bid_count>>
escVars == <<escrows, escrows_by_invoice, escrow_count>>
vars == <<now, invVars, mktVars, escVars, promises, last>>

\* A receipt that completed has no panic message
NoPanic == ""

\* The receipt executed last: the method, the message it panicked with
\* (NoPanic when it completed), and the value it returned (0 when it returns
\* none or panicked).
Rcpt(op, panic, ret) == [op |-> op, ok |-> panic = NoPanic, panic |-> panic, ret |-> ret]

\* One call of a promise chain.  Fields a call does not use keep their
\* defaults: inv, lst, esc invoice, listing and escrow ids, a, b accounts,
\* x, y amounts, d a date.
Call(m, to, inv, lst, esc, a, b, x, y, d) ==
    [m |-> m, to |-> to, inv |-> inv, lst |-> lst, esc |-> esc, a |-> a, b |-> b,
     x |-> x, y |-> y, d |-> d]

\* A promise chain created by method op of contract pred for record id: the
\* calls still to run, the outcome of the call run before them ("none", "ok"
\* or "fail"), and whether every call run so far succeeded.
Chain(op, pred, id, calls) ==
    [op |-> op, pred |-> pred, id |-> id, calls |-> calls,
     prev |-> "none", allok |-> TRUE]

\* ================================================== invoice registry

InvoiceExists(i) == i \in 1..invoice_count

\* The panic of each method is the message of the first assert or expect
\* that fails, in the order of the code.

\* create_invoice (the deposit is counted in millinear)
\* create_invoice without its amount assert (line 94)
create_invoice_panic_any_amount(deposit, amount, debtor_name, description, due_date, documents_hash) ==
    IF deposit < 10 THEN "Requires 0.01 NEAR deposit for storage"
    ELSE IF debtor_name = "" THEN "Debtor name required"
    ELSE IF description = "" THEN "Description required"
    ELSE IF documents_hash = "" THEN "Documents hash required"
    ELSE IF ~(due_date > now) THEN "Due date must be in the future"
    ELSE NoPanic

\* create_invoice without its due date assert (lines 95-98)
create_invoice_panic_any_due_date(deposit, amount, debtor_name, description, due_date, documents_hash) ==
    IF deposit < 10 THEN "Requires 0.01 NEAR deposit for storage"
    ELSE IF debtor_name = "" THEN "Debtor name required"
    ELSE IF description = "" THEN "Description required"
    ELSE IF documents_hash = "" THEN "Documents hash required"
    ELSE IF ~(amount > 0) THEN "Amount must be greater than 0"
    ELSE NoPanic

create_invoice_panic(deposit, amount, debtor_name, description, due_date, documents_hash) ==
    IF deposit < 10 THEN "Requires 0.01 NEAR deposit for storage"
    ELSE IF debtor_name = "" THEN "Debtor name required"
    ELSE IF description = "" THEN "Description required"
    ELSE IF documents_hash = "" THEN "Documents hash required"
    ELSE IF ~(amount > 0) THEN "Amount must be greater than 0"
    ELSE IF ~(due_date > now) THEN "Due date must be in the future"
    ELSE NoPanic

\* The risk score.  Time is counted in seconds (a day is 24 * 60 * 60 * 1000
\* ms) and amounts in thousands of token units (the tiers are at 10^9,
\* 5 * 10^9 and 10^10 units).
DaySeconds == 24 * 60 * 60

\* (due_date.saturating_sub(env::block_timestamp_ms())) / (24 * 60 * 60 * 1000)
\* at block timestamp t
days_until_due(due_date, t) == (IF due_date > t THEN due_date - t ELSE 0) \div DaySeconds

\* env::block_timestamp() % n at block timestamp t: the timestamp is
\* t * 10^9 ns
block_timestamp_mod(t, n) == ((t % n) * (1000000000 % n)) % n

\* risk_score.min(99), for the score of the tier of the amount and the days
\* until due
risk_score(amount_val, days, t) ==
    LET score ==
            IF amount_val < 1000000 /\ days < 30 THEN 20 + block_timestamp_mod(t, 10)
            ELSE IF amount_val < 5000000 /\ days < 60 THEN 40 + block_timestamp_mod(t, 15)
            ELSE IF amount_val < 10000000 /\ days < 90 THEN 55 + block_timestamp_mod(t, 15)
            ELSE 70 + block_timestamp_mod(t, 20)
    IN IF score < 99 THEN score ELSE 99

NewInvoice(creator, amount, due_date) ==
    [creator |-> creator, owner |-> creator, amount |-> amount,
     due_date |-> due_date, status |-> "Draft",
     risk_score |-> risk_score(amount, days_until_due(due_date, now), now)]

CreateInvoice(caller, deposit, amount, debtor_name, description, due_date, documents_hash) ==
    /\ LET panic == create_invoice_panic(deposit, amount, debtor_name, description,
                                         due_date, documents_hash) IN
       IF panic = NoPanic
       THEN /\ invoice_count' = invoice_count + 1
            /\ invoices' = [i \in 1..(invoice_count + 1) |->
                              IF i = invoice_count + 1
                              THEN NewInvoice(caller, amount, due_date)
                              ELSE invoices[i]]
            /\ last' = Rcpt("create_invoice", NoPanic, invoice_count + 1)
       ELSE /\ UNCHANGED <<invoices, invoice_count>>
            /\ last' = Rcpt("create_invoice", panic, 0)
    /\ UNCHANGED <<now, inv_marketplace_contract, inv_escrow_contract, mktVars, escVars, promises>>

\* transfer_invoice: marketplace only, invoice Listed
transfer_invoice_panic(caller, i) ==
    IF caller # inv_marketplace_contract THEN "Only marketplace can transfer invoices"
    ELSE IF ~InvoiceExists(i) THEN "Invoice not found"
    ELSE IF invoices[i].status # "Listed" THEN "Invoice must be listed"
    ELSE NoPanic

transfer_invoice_do(i, new_owner) ==
    [invoices EXCEPT ![i].owner = new_owner, ![i].status = "Sold"]

\* mark_settled: escrow or marketplace, invoice Sold
mark_settled_panic(caller, i) ==
    IF ~(caller = inv_escrow_contract \/ caller = inv_marketplace_contract) THEN "Unauthorized"
    ELSE IF ~InvoiceExists(i) THEN "Invoice not found"
    ELSE IF invoices[i].status # "Sold" THEN "Invoice must be sold to settle"
    ELSE NoPanic

mark_settled_do(i) == [invoices EXCEPT ![i].status = "Settled"]

\* set_listed: owner or marketplace, invoice Draft
set_listed_panic(caller, i) ==
    IF ~InvoiceExists(i) THEN "Invoice not found"
    ELSE IF ~(invoices[i].owner = caller \/ caller = inv_marketplace_contract)
         THEN "Only owner or marketplace can list invoice"
    ELSE IF invoices[i].status # "Draft" THEN "Invoice must be in Draft status"
    ELSE NoPanic

set_listed_do(i) == [invoices EXCEPT ![i].status = "Listed"]

\* cancel_invoice: owner only, invoice Draft
\* cancel_invoice without its status assert (lines 264-267)
cancel_invoice_panic_any_status(caller, i) ==
    IF ~InvoiceExists(i) THEN "Invoice not found"
    ELSE IF invoices[i].owner # caller THEN "Only owner can cancel invoice"
    ELSE NoPanic

cancel_invoice_panic(caller, i) ==
    IF ~InvoiceExists(i) THEN "Invoice not found"
    ELSE IF invoices[i].owner # caller THEN "Only owner can cancel invoice"
    ELSE IF invoices[i].status # "Draft" THEN "Can only cancel draft invoices"
    ELSE NoPanic

cancel_invoice_do(i) == [invoices EXCEPT ![i].status = "Cancelled"]

\* unlist_invoice: owner or marketplace, invoice Listed
unlist_invoice_panic(caller, i) ==
    IF ~InvoiceExists(i) THEN "Invoice not found"
    ELSE IF ~(invoices[i].owner = caller \/ caller = inv_marketplace_contract) THEN "Unauthorized"
    ELSE IF invoices[i].status # "Listed" THEN "Invoice must be listed"
    ELSE NoPanic

unlist_invoice_do(i) == [invoices EXCEPT ![i].status = "Draft"]

\* One receipt of the invoice registry for method m, predecessor caller,
\* invoice i (and new owner a, for transfer_invoice): its panic, and the
\* invoices after it when it completes.
InvoiceCallPanic(m, caller, i) ==
    CASE m = "transfer_invoice" -> transfer_invoice_panic(caller, i)
      [] m = "mark_settled" -> mark_settled_panic(caller, i)
      [] m = "set_listed" -> set_listed_panic(caller, i)
      [] m = "cancel_invoice" -> cancel_invoice_panic(caller, i)
      [] m = "unlist_invoice" -> unlist_invoice_panic(caller, i)

InvoiceCallDo(m, i, a) ==
    CASE m = "transfer_invoice" -> transfer_invoice_do(i, a)
      [] m = "mark_settled" -> mark_settled_do(i)
      [] m = "set_listed" -> set_listed_do(i)
      [] m = "cancel_invoice" -> cancel_invoice_do(i)
      [] m = "unlist_invoice" -> unlist_invoice_do(i)

InvoiceMethods ==
    {"transfer_invoice", "mark_settled", "set_listed", "cancel_invoice", "unlist_invoice"}

\* A direct call of a registry method by an account
InvoiceCall(m, caller, i, a) ==
    /\ LET panic == InvoiceCallPanic(m, caller, i) IN
       IF panic = NoPanic
       THEN /\ invoices' = InvoiceCallDo(m, i, a)
            /\ last' = Rcpt(m, NoPanic, 0)
       ELSE /\ UNCHANGED invoices
            /\ last' = Rcpt(m, panic, 0)
    /\ UNCHANGED <<now, invoice_count, inv_marketplace_contract, inv_escrow_contract,
                   mktVars, escVars, promises>>

\* set_marketplace_contract and set_escrow_contract ("In production, add
\* proper admin check"): no assert, whoever calls
set_marketplace_contract_panic(caller) == NoPanic

SetMarketplaceContract(caller, marketplace_contract) ==
    /\ LET panic == set_marketplace_contract_panic(caller) IN
       /\ inv_marketplace_contract' =
             IF panic = NoPanic THEN marketplace_contract ELSE inv_marketplace_contract
       /\ last' = Rcpt("set_marketplace_contract", panic, 0)
    /\ UNCHANGED <<now, invoices, invoice_count, inv_escrow_contract, mktVars, escVars,
                   promises>>

set_escrow_contract_panic(caller) == NoPanic

SetEscrowContract(caller, escrow_contract) ==
    /\ LET panic == set_escrow_contract_panic(caller) IN
       /\ inv_escrow_contract' =
             IF panic = NoPanic THEN escrow_contract ELSE inv_escrow_contract
       /\ last' = Rcpt("set_escrow_contract", panic, 0)
    /\ UNCHANGED <<now, invoices, invoice_count, inv_marketplace_contract, mktVars, escVars,
                   promises>>

\* ======================================================= marketplace

ListingExists(l) == l \in DOMAIN listings

\* A promise-call to the invoice registry, the escrow engine, the token
InvoiceCallTo(m, i, a) == Call(m, INVOICE, i, 0, 0, a, "", 0, 0, 0)
CreateEscrowCall(i, seller, buyer, sale_amount, invoice_amount, due_date) ==
    Call("create_escrow", ESCROW, i, 0, 0, seller, buyer, sale_amount, invoice_amount, due_date)
\* ft_transfer(receiver_id, amount, memo): the memo names invoice i
\* ("escrow_deposit:<i>") or escrow e ("settlement:<e>", "dispute_resolution:<e>")
FtTransferCall(receiver, amount, i, e) ==
    Call("ft_transfer", USDC, i, 0, e, receiver, "", amount, 0, 0)
OnListCallbackCall(l) == Call("on_list_callback", MARKETPLACE, 0, l, 0, "", "", 0, 0, 0)
\* Promise::new(env::current_account_id()): a promise with no action
NoopCall == Call("noop", "", 0, 0, 0, "", "", 0, 0, 0)

\* list_invoice without its lookup assert (lines 149-152)
list_invoice_panic_relisting(invoice_id, asking_price, invoice_amount) ==
    IF ~(asking_price > 0) THEN "Asking price must be greater than 0"
    ELSE IF ~(asking_price <= invoice_amount) THEN "Asking price cannot exceed invoice amount"
    ELSE NoPanic

\* list_invoice without its assert on the invoice amount (lines 143-146)
list_invoice_panic_any_price(invoice_id, asking_price, invoice_amount) ==
    IF ~(asking_price > 0) THEN "Asking price must be greater than 0"
    ELSE IF listings_by_invoice[invoice_id] # None THEN "Invoice already listed"
    ELSE NoPanic

list_invoice_panic(invoice_id, asking_price, invoice_amount) ==
    IF ~(asking_price > 0) THEN "Asking price must be greater than 0"
    ELSE IF ~(asking_price <= invoice_amount) THEN "Asking price cannot exceed invoice amount"
    ELSE IF listings_by_invoice[invoice_id] # None THEN "Invoice already listed"
    ELSE NoPanic

NewListing(seller, invoice_id, asking_price, invoice_amount, due_date, min_price, expires_at) ==
    [invoice_id |-> invoice_id, seller |-> seller, asking_price |-> asking_price,
     min_price |-> min_price, invoice_amount |-> invoice_amount, due_date |-> due_date,
     expires_at |-> expires_at, active |-> TRUE]

\* the promise list_invoice returns: set_listed, then on_list_callback
list_invoice_promise(id, invoice_id) ==
    Chain("list_invoice", MARKETPLACE, id,
          <<InvoiceCallTo("set_listed", invoice_id, ""), OnListCallbackCall(id)>>)

ListInvoice(caller, invoice_id, asking_price, invoice_amount, due_date, min_price, expires_at) ==
    /\ LET panic == list_invoice_panic(invoice_id, asking_price, invoice_amount)
           id == listing_count + 1 IN
       IF panic = NoPanic
       THEN
            /\ listing_count' = id
            /\ listings' = [l \in DOMAIN listings \cup {id} |->
                              IF l = id
                              THEN NewListing(caller, invoice_id, asking_price,
                                              invoice_amount, due_date, min_price, expires_at)
                              ELSE listings[l]]
            /\ listings_by_invoice' = [listings_by_invoice EXCEPT ![invoice_id] = id]
            /\ promises' = promises \cup {list_invoice_promise(id, invoice_id)}
            /\ last' = Rcpt("list_invoice", NoPanic, 0)
       ELSE /\ UNCHANGED <<listings, listings_by_invoice, listing_count, promises>>
            /\ last' = Rcpt("list_invoice", panic, 0)
    /\ UNCHANGED <<now, invVars, bids, bid_count, escVars>>

\* on_list_callback, Err branch, lines 199-202: the listing and its lookup
\* entry removed
on_list_callback_rollback(l) ==
    IF ListingExists(l)
    THEN [listings |-> [k \in DOMAIN listings \ {l} |-> listings[k]],
          lookup |-> [listings_by_invoice EXCEPT ![listings[l].invoice_id] = None]]
    ELSE [listings |-> listings, lookup |-> listings_by_invoice]

\* What a receipt that panics commits: nothing of the state s it built
Panicked(s) == [listings |-> listings, lookup |-> listings_by_invoice]

on_list_callback_panic(result) ==
    IF result = "ok" THEN NoPanic ELSE "Failed to mark invoice as listed"

\* What on_list_callback commits for the outcome of set_listed: Ok returns
\* the listing id; Err removes the listing and then calls env::panic_str
\* (line 203), which fails the receipt
on_list_callback_commit(result, l) ==
    IF result = "ok"
    THEN [listings |-> listings, lookup |-> listings_by_invoice]
    ELSE Panicked(on_list_callback_rollback(l))

\* Deactivate listing l and remove its invoice's lookup entry (lines
\* 278-281, 355-358, 398-401, 487-490)
Deactivated(l) == [listings EXCEPT ![l].active = FALSE]
LookupRemoved(l) == [listings_by_invoice EXCEPT ![listings[l].invoice_id] = None]

Expired(l) == listings[l].expires_at # None /\ ~(now < listings[l].expires_at)

\* process_usdc_purchase without its active assert (line 256)
process_usdc_purchase_panic_inactive(buyer, payment, l) ==
    IF ~ListingExists(l) THEN "Listing not found"
    ELSE IF listings[l].seller = buyer THEN "Cannot buy your own listing"
    ELSE IF Expired(l) THEN "Listing has expired"
    ELSE IF ~(payment >= listings[l].asking_price) THEN "Insufficient payment"
    ELSE NoPanic

process_usdc_purchase_panic(buyer, payment, l) ==
    IF ~ListingExists(l) THEN "Listing not found"
    ELSE IF ~listings[l].active THEN "Listing is not active"
    ELSE IF listings[l].seller = buyer THEN "Cannot buy your own listing"
    ELSE IF Expired(l) THEN "Listing has expired"
    ELSE IF ~(payment >= listings[l].asking_price) THEN "Insufficient payment"
    ELSE NoPanic

\* process_usdc_purchase returning nothing of the payment
process_usdc_purchase_excess_kept(payment, l) == 0

\* the excess payment to refund (line 275), the value returned
process_usdc_purchase_excess(payment, l) == payment - listings[l].asking_price

\* transfer USDC to escrow, then transfer invoice, then create escrow record
process_usdc_purchase_promise(buyer, l) ==
    LET L == listings[l] IN
    Chain("purchase", MARKETPLACE, l,
          <<FtTransferCall(ESCROW, L.asking_price, L.invoice_id, 0),
            InvoiceCallTo("transfer_invoice", L.invoice_id, buyer),
            CreateEscrowCall(L.invoice_id, L.seller, buyer, L.asking_price,
                             L.invoice_amount, L.due_date)>>)

\* A message "a:b" after msg.split(':'): the number of parts, parts[0] and
\* the id parts[1] names (0 when there is no second part)
Msg(parts, action, id) == [parts |-> parts, action |-> action, id |-> id]

mkt_ft_on_transfer_panic(pred, sender_id, amount, msg) ==
    IF pred # USDC THEN "Only USDC token transfers accepted"
    ELSE IF ~(msg.parts >= 2) THEN "Invalid message format"
    ELSE IF msg.action = "buy_listing" THEN process_usdc_purchase_panic(sender_id, amount, msg.id)
    ELSE IF msg.action = "place_bid" THEN "Bidding with USDC not yet implemented"
    ELSE "Unknown action"

MktFtOnTransfer(pred, sender_id, amount, msg) ==
    /\ LET panic == mkt_ft_on_transfer_panic(pred, sender_id, amount, msg) IN
       IF panic = NoPanic
       THEN /\ listings' = Deactivated(msg.id)
            /\ listings_by_invoice' = LookupRemoved(msg.id)
            /\ promises' = promises \cup {process_usdc_purchase_promise(sender_id, msg.id)}
            /\ last' = Rcpt("mkt_ft_on_transfer", NoPanic,
                            process_usdc_purchase_excess(amount, msg.id))
       ELSE /\ UNCHANGED <<listings, listings_by_invoice, promises>>
            /\ last' = Rcpt("mkt_ft_on_transfer", panic, 0)
    /\ UNCHANGED <<now, invVars, bids, listing_count, bid_count, escVars>>

\* buy_invoice (the deposit is counted in millinear)
buy_invoice_panic(buyer, deposit, l) ==
    IF ~ListingExists(l) THEN "Listing not found"
    ELSE IF ~listings[l].active THEN "Listing is not active"
    ELSE IF listings[l].seller = buyer THEN "Cannot buy your own listing"
    ELSE IF Expired(l) THEN "Listing has expired"
    ELSE IF ~(deposit >= 1) THEN "Must attach payment"
    ELSE NoPanic

\* transfer invoice, then create escrow
sale_promise(op, l, buyer, sale_amount) ==
    LET L == listings[l] IN
    Chain(op, MARKETPLACE, l,
          <<InvoiceCallTo("transfer_invoice", L.invoice_id, buyer),
            CreateEscrowCall(L.invoice_id, L.seller, buyer, sale_amount,
                             L.invoice_amount, L.due_date)>>)

BuyInvoice(caller, deposit, l) ==
    /\ LET panic == buy_invoice_panic(caller, deposit, l) IN
       IF panic = NoPanic
       THEN /\ listings' = Deactivated(l)
            /\ listings_by_invoice' = LookupRemoved(l)
            /\ promises' = promises \cup
                             {sale_promise("buy_invoice", l, caller, listings[l].asking_price)}
            /\ last' = Rcpt("buy_invoice", NoPanic, 0)
       ELSE /\ UNCHANGED <<listings, listings_by_invoice, promises>>
            /\ last' = Rcpt("buy_invoice", panic, 0)
    /\ UNCHANGED <<now, invVars, bids, listing_count, bid_count, escVars>>

cancel_listing_panic(caller, l) ==
    IF ~ListingExists(l) THEN "Listing not found"
    ELSE IF listings[l].seller # caller THEN "Only seller can cancel listing"
    ELSE IF ~listings[l].active THEN "Listing is not active"
    ELSE NoPanic

cancel_listing_promise(l) ==
    Chain("cancel_listing", MARKETPLACE, l,
          <<InvoiceCallTo("unlist_invoice", listings[l].invoice_id, "")>>)

CancelListing(caller, l) ==
    /\ LET panic == cancel_listing_panic(caller, l) IN
       IF panic = NoPanic
       THEN /\ listings' = Deactivated(l)
            /\ listings_by_invoice' = LookupRemoved(l)
            /\ promises' = promises \cup {cancel_listing_promise(l)}
            /\ last' = Rcpt("cancel_listing", NoPanic, 0)
       ELSE /\ UNCHANGED <<listings, listings_by_invoice, promises>>
            /\ last' = Rcpt("cancel_listing", panic, 0)
    /\ UNCHANGED <<now, invVars, bids, listing_count, bid_count, escVars>>

\* place_bid without its minimum price assert (lines 434-436)
place_bid_panic_any_amount(bidder, deposit, l, amount) ==
    IF ~ListingExists(l) THEN "Listing not found"
    ELSE IF ~listings[l].active THEN "Listing is not active"
    ELSE IF listings[l].seller = bidder THEN "Cannot bid on your own listing"
    ELSE IF ~(deposit >= 1) THEN "Must attach deposit for bid"
    ELSE NoPanic

place_bid_panic(bidder, deposit, l, amount) ==
    IF ~ListingExists(l) THEN "Listing not found"
    ELSE IF ~listings[l].active THEN "Listing is not active"
    ELSE IF listings[l].seller = bidder THEN "Cannot bid on your own listing"
    ELSE IF listings[l].min_price # None /\ ~(amount >= listings[l].min_price)
         THEN "Bid below minimum price"
    ELSE IF ~(deposit >= 1) THEN "Must attach deposit for bid"
    ELSE NoPanic

\* A bid that takes the first id whatever the counter
NewBid_first_id(id, bidder, amount) ==
    [id |-> 1, bidder |-> bidder, amount |-> amount, active |-> TRUE]

NewBid(id, bidder, amount) ==
    [id |-> id, bidder |-> bidder, amount |-> amount, active |-> TRUE]

PlaceBid(caller, deposit, l, amount) ==
    /\ LET panic == place_bid_panic(caller, deposit, l, amount) IN
       IF panic = NoPanic
       THEN /\ bid_count' = bid_count + 1
            /\ bids' = [bids EXCEPT ![l] = Append(@, NewBid(bid_count + 1, caller, amount))]
            /\ last' = Rcpt("place_bid", NoPanic, bid_count + 1)
       ELSE /\ UNCHANGED <<bids, bid_count>>
            /\ last' = Rcpt("place_bid", panic, 0)
    /\ UNCHANGED <<now, invVars, listings, listings_by_invoice, listing_count, escVars, promises>>

\* bids.iter().find(|b| b.id == bid_id && b.active): the index, 0 if none
FindActiveBid(l, bid_id) ==
    LET hits == {k \in 1..Len(bids[l]) : bids[l][k].id = bid_id /\ bids[l][k].active}
    IN IF hits = {} THEN 0 ELSE CHOOSE k \in hits : \A j \in hits : k <= j

\* bids.iter().position(|b| b.id == bid_id): the index, 0 if none
BidPosition(l, bid_id) ==
    LET hits == {k \in 1..Len(bids[l]) : bids[l][k].id = bid_id}
    IN IF hits = {} THEN 0 ELSE CHOOSE k \in hits : \A j \in hits : k <= j

\* self.bids.get(&listing_id) is Some: a bid was placed under that id
HasBids(l) == l \in ListingIds /\ bids[l] # <<>>

\* accept_bid without its seller assert (line 476)
accept_bid_panic_any_caller(caller, l, bid_id) ==
    IF ~ListingExists(l) THEN "Listing not found"
    ELSE IF ~listings[l].active THEN "Listing is not active"
    ELSE IF ~HasBids(l) THEN "No bids found"
    ELSE IF FindActiveBid(l, bid_id) = 0 THEN "Bid not found or inactive"
    ELSE NoPanic

accept_bid_panic(caller, l, bid_id) ==
    IF ~ListingExists(l) THEN "Listing not found"
    ELSE IF listings[l].seller # caller THEN "Only seller can accept bids"
    ELSE IF ~listings[l].active THEN "Listing is not active"
    ELSE IF ~HasBids(l) THEN "No bids found"
    ELSE IF FindActiveBid(l, bid_id) = 0 THEN "Bid not found or inactive"
    ELSE NoPanic

AllBidsDeactivated(l) ==
    [bids EXCEPT ![l] = [k \in 1..Len(@) |-> [@[k] EXCEPT !.active = FALSE]]]

AcceptBid(caller, l, bid_id) ==
    /\ LET panic == accept_bid_panic(caller, l, bid_id)
           bid == bids[l][FindActiveBid(l, bid_id)] IN
       IF panic = NoPanic
       THEN
            /\ listings' = Deactivated(l)
            /\ listings_by_invoice' = LookupRemoved(l)
            /\ bids' = AllBidsDeactivated(l)
            /\ promises' = promises \cup {sale_promise("accept_bid", l, bid.bidder, bid.amount)}
            /\ last' = Rcpt("accept_bid", NoPanic, 0)
       ELSE /\ UNCHANGED <<listings, listings_by_invoice, bids, promises>>
            /\ last' = Rcpt("accept_bid", panic, 0)
    /\ UNCHANGED <<now, invVars, listing_count, bid_count, escVars>>

\* cancel_bid without its bidder assert (line 539)
cancel_bid_panic_any_caller(caller, l, bid_id) ==
    IF ~HasBids(l) THEN "No bids found"
    ELSE IF BidPosition(l, bid_id) = 0 THEN "Bid not found"
    ELSE IF ~bids[l][BidPosition(l, bid_id)].active THEN "Bid is not active"
    ELSE NoPanic

cancel_bid_panic(caller, l, bid_id) ==
    IF ~HasBids(l) THEN "No bids found"
    ELSE IF BidPosition(l, bid_id) = 0 THEN "Bid not found"
    ELSE IF bids[l][BidPosition(l, bid_id)].bidder # caller THEN "Only bidder can cancel bid"
    ELSE IF ~bids[l][BidPosition(l, bid_id)].active THEN "Bid is not active"
    ELSE NoPanic

CancelBid(caller, l, bid_id) ==
    /\ LET panic == cancel_bid_panic(caller, l, bid_id) IN
       IF panic = NoPanic
       THEN /\ bids' = [bids EXCEPT ![l][BidPosition(l, bid_id)].active = FALSE]
            /\ last' = Rcpt("cancel_bid", NoPanic, 0)
       ELSE /\ UNCHANGED bids
            /\ last' = Rcpt("cancel_bid", panic, 0)
    /\ UNCHANGED <<now, invVars, listings, listings_by_invoice, listing_count, bid_count,
                   escVars, promises>>

\* ===================================================== escrow engine

EscrowExists(e) == e \in 1..escrow_count

NoReason == "<none>"

\* The escrow the lookup gives for an invoice id, 0 when there is none (the
\* lookup's entry, and then the record under that id)
EscrowOf(invoice_id) ==
    IF invoice_id \in DOMAIN escrows_by_invoice /\ escrows_by_invoice[invoice_id] # None
       /\ EscrowExists(escrows_by_invoice[invoice_id])
    THEN escrows_by_invoice[invoice_id]
    ELSE 0

\* ft_on_transfer crediting on any action word (parts[0] not compared)
esc_ft_matches_any_action(msg) ==
    /\ msg.parts >= 2
    /\ EscrowOf(msg.id) # 0

\* ft_on_transfer: whether the notification names an escrow to credit
esc_ft_matches(msg) ==
    /\ msg.parts >= 2
    /\ msg.action = "escrow_deposit"
    /\ EscrowOf(msg.id) # 0

\* ft_on_transfer without its sender assert (lines 120-123)
esc_ft_on_transfer_panic_any_sender(pred, sender_id, amount, msg) ==
    IF pred # USDC THEN "Only USDC token transfers accepted"
    ELSE IF esc_ft_matches(msg) /\ ~(amount >= escrows[EscrowOf(msg.id)].sale_amount)
         THEN "Insufficient deposit amount"
    ELSE NoPanic

\* ft_on_transfer without its amount assert (lines 137-140)
esc_ft_on_transfer_panic_any_amount(pred, sender_id, amount, msg) ==
    IF pred # USDC THEN "Only USDC token transfers accepted"
    ELSE IF sender_id # MARKETPLACE THEN "Only marketplace can deposit to escrow"
    ELSE NoPanic

esc_ft_on_transfer_panic(pred, sender_id, amount, msg) ==
    IF pred # USDC THEN "Only USDC token transfers accepted"
    ELSE IF sender_id # MARKETPLACE THEN "Only marketplace can deposit to escrow"
    ELSE IF esc_ft_matches(msg) /\ ~(amount >= escrows[EscrowOf(msg.id)].sale_amount)
         THEN "Insufficient deposit amount"
    ELSE NoPanic

\* ft_on_transfer flipping the flag of the escrow it credits instead of
\* setting it
esc_ft_on_transfer_flip(msg) ==
    IF esc_ft_matches(msg)
    THEN [escrows EXCEPT ![EscrowOf(msg.id)].funds_deposited = ~@]
    ELSE escrows

esc_ft_on_transfer_do(msg) ==
    IF esc_ft_matches(msg)
    THEN [escrows EXCEPT ![EscrowOf(msg.id)].funds_deposited = TRUE]
    ELSE escrows

\* Accept all funds (return 0 to keep everything)
esc_ft_on_transfer_ret(amount, msg) == 0

EscFtOnTransfer(pred, sender_id, amount, msg) ==
    /\ LET panic == esc_ft_on_transfer_panic(pred, sender_id, amount, msg) IN
       IF panic = NoPanic
       THEN /\ escrows' = esc_ft_on_transfer_do(msg)
            /\ last' = Rcpt("esc_ft_on_transfer", NoPanic, esc_ft_on_transfer_ret(amount, msg))
       ELSE /\ UNCHANGED escrows
            /\ last' = Rcpt("esc_ft_on_transfer", panic, 0)
    /\ UNCHANGED <<now, invVars, mktVars, escrows_by_invoice, escrow_count, promises>>

\* create_escrow without its lookup assert (lines 171-174)
create_escrow_panic_duplicate(caller, invoice_id) ==
    IF ~(caller = MARKETPLACE \/ caller = ADMIN) THEN "Only marketplace can create escrow"
    ELSE NoPanic

create_escrow_panic(caller, invoice_id) ==
    IF ~(caller = MARKETPLACE \/ caller = ADMIN) THEN "Only marketplace can create escrow"
    ELSE IF escrows_by_invoice[invoice_id] # None THEN "Escrow already exists for this invoice"
    ELSE NoPanic

\* An escrow entry created with its funds already marked as deposited
NewEscrowFunded(invoice_id, seller, buyer, sale_amount, invoice_amount, due_date) ==
    [invoice_id |-> invoice_id, seller |-> seller, buyer |-> buyer,
     sale_amount |-> sale_amount, invoice_amount |-> invoice_amount,
     due_date |-> due_date, status |-> "Active", settled_at |-> None,
     dispute_reason |-> NoReason, funds_deposited |-> TRUE]

NewEscrow(invoice_id, seller, buyer, sale_amount, invoice_amount, due_date) ==
    [invoice_id |-> invoice_id, seller |-> seller, buyer |-> buyer,
     sale_amount |-> sale_amount, invoice_amount |-> invoice_amount,
     due_date |-> due_date, status |-> "Active", settled_at |-> None,
     dispute_reason |-> NoReason, funds_deposited |-> FALSE]

create_escrow_do(invoice_id, seller, buyer, sale_amount, invoice_amount, due_date) ==
    [e \in 1..(escrow_count + 1) |->
        IF e = escrow_count + 1
        THEN NewEscrow(invoice_id, seller, buyer, sale_amount, invoice_amount, due_date)
        ELSE escrows[e]]

CreateEscrow(caller, invoice_id, seller, buyer, sale_amount, invoice_amount, due_date) ==
    /\ LET panic == create_escrow_panic(caller, invoice_id) IN
       IF panic = NoPanic
       THEN /\ escrow_count' = escrow_count + 1
            /\ escrows' = create_escrow_do(invoice_id, seller, buyer, sale_amount,
                                           invoice_amount, due_date)
            /\ escrows_by_invoice' = [escrows_by_invoice EXCEPT ![invoice_id] = escrow_count + 1]
            /\ last' = Rcpt("create_escrow", NoPanic, escrow_count + 1)
       ELSE /\ UNCHANGED <<escrows, escrows_by_invoice, escrow_count>>
            /\ last' = Rcpt("create_escrow", panic, 0)
    /\ UNCHANGED <<now, invVars, mktVars, promises>>

\* settle without its funds assert (lines 242-245)
settle_panic_unfunded(caller, e) ==
    IF ~EscrowExists(e) THEN "Escrow not found"
    ELSE IF escrows[e].status # "Active" THEN "Escrow is not active"
    ELSE IF ~(caller = escrows[e].seller \/ caller = escrows[e].buyer \/ caller = ADMIN)
         THEN "Unauthorized"
    ELSE NoPanic

\* settle without its caller assert (lines 236-239)
settle_panic_any_caller(caller, e) ==
    IF ~EscrowExists(e) THEN "Escrow not found"
    ELSE IF escrows[e].status # "Active" THEN "Escrow is not active"
    ELSE IF ~escrows[e].funds_deposited THEN "No funds deposited in escrow"
    ELSE NoPanic

settle_panic(caller, e) ==
    IF ~EscrowExists(e) THEN "Escrow not found"
    ELSE IF escrows[e].status # "Active" THEN "Escrow is not active"
    ELSE IF ~(caller = escrows[e].seller \/ caller = escrows[e].buyer \/ caller = ADMIN)
         THEN "Unauthorized"
    ELSE IF ~escrows[e].funds_deposited THEN "No funds deposited in escrow"
    ELSE NoPanic

settle_do(e) == [escrows EXCEPT ![e].status = "Released", ![e].settled_at = now]

\* ft_transfer of the sale amount to the buyer, then mark_settled
settle_promise(e) ==
    Chain("settle", ESCROW, e,
          <<FtTransferCall(escrows[e].buyer, escrows[e].sale_amount, 0, e),
            InvoiceCallTo("mark_settled", escrows[e].invoice_id, "")>>)

Settle(caller, e) ==
    /\ LET panic == settle_panic(caller, e) IN
       IF panic = NoPanic
       THEN /\ escrows' = settle_do(e)
            /\ promises' = promises \cup {settle_promise(e)}
            /\ last' = Rcpt("settle", NoPanic, 0)
       ELSE /\ UNCHANGED <<escrows, promises>>
            /\ last' = Rcpt("settle", panic, 0)
    /\ UNCHANGED <<now, invVars, mktVars, escrows_by_invoice, escrow_count>>

\* simulate_debtor_payment: its own status check, then self.settle(escrow_id)
\* in the same receipt, with the same predecessor
simulate_debtor_payment_panic(caller, e) ==
    IF ~EscrowExists(e) THEN "Escrow not found"
    ELSE IF escrows[e].status # "Active" THEN "Escrow is not active"
    ELSE settle_panic(caller, e)

SimulateDebtorPayment(caller, e) ==
    /\ LET panic == simulate_debtor_payment_panic(caller, e) IN
       IF panic = NoPanic
       THEN /\ escrows' = settle_do(e)
            /\ promises' = promises \cup {settle_promise(e)}
            /\ last' = Rcpt("simulate_debtor_payment", NoPanic, 0)
       ELSE /\ UNCHANGED <<escrows, promises>>
            /\ last' = Rcpt("simulate_debtor_payment", panic, 0)
    /\ UNCHANGED <<now, invVars, mktVars, escrows_by_invoice, escrow_count>>

\* open_dispute without its status assert (lines 310-313)
open_dispute_panic_any_status(caller, e, reason) ==
    IF ~EscrowExists(e) THEN "Escrow not found"
    ELSE IF ~(caller = escrows[e].buyer \/ caller = escrows[e].seller)
         THEN "Only buyer or seller can open dispute"
    ELSE IF reason = "" THEN "Dispute reason required"
    ELSE NoPanic

open_dispute_panic(caller, e, reason) ==
    IF ~EscrowExists(e) THEN "Escrow not found"
    ELSE IF escrows[e].status # "Active" THEN "Escrow is not active"
    ELSE IF ~(caller = escrows[e].buyer \/ caller = escrows[e].seller)
         THEN "Only buyer or seller can open dispute"
    ELSE IF reason = "" THEN "Dispute reason required"
    ELSE NoPanic

open_dispute_do(e, reason) ==
    [escrows EXCEPT ![e].status = "Disputed", ![e].dispute_reason = reason]

OpenDispute(caller, e, reason) ==
    /\ LET panic == open_dispute_panic(caller, e, reason) IN
       IF panic = NoPanic
       THEN /\ escrows' = open_dispute_do(e, reason)
            /\ last' = Rcpt("open_dispute", NoPanic, 0)
       ELSE /\ UNCHANGED escrows
            /\ last' = Rcpt("open_dispute", panic, 0)
    /\ UNCHANGED <<now, invVars, mktVars, escrows_by_invoice, escrow_count, promises>>

\* resolve_dispute without its status assert (lines 340-343)
resolve_dispute_panic_any_status(caller, e, winner) ==
    IF caller # ADMIN THEN "Only admin can resolve disputes"
    ELSE IF ~EscrowExists(e) THEN "Escrow not found"
    ELSE IF ~(winner = escrows[e].buyer \/ winner = escrows[e].seller)
         THEN "Winner must be buyer or seller"
    ELSE IF ~escrows[e].funds_deposited THEN "No funds deposited in escrow"
    ELSE NoPanic

resolve_dispute_panic(caller, e, winner) ==
    IF caller # ADMIN THEN "Only admin can resolve disputes"
    ELSE IF ~EscrowExists(e) THEN "Escrow not found"
    ELSE IF escrows[e].status # "Disputed" THEN "Escrow is not disputed"
    ELSE IF ~(winner = escrows[e].buyer \/ winner = escrows[e].seller)
         THEN "Winner must be buyer or seller"
    ELSE IF ~escrows[e].funds_deposited THEN "No funds deposited in escrow"
    ELSE NoPanic

buyer_wins(e, winner) == winner = escrows[e].buyer

resolve_dispute_do(e, winner) ==
    [escrows EXCEPT ![e].status = IF buyer_wins(e, winner) THEN "Refunded" ELSE "Released",
                    ![e].settled_at = now]

\* resolve_dispute notifying the registry whoever won
resolve_dispute_promise_notifying(e, winner) ==
    Chain("resolve_dispute", ESCROW, e,
          <<FtTransferCall(IF buyer_wins(e, winner) THEN escrows[e].buyer ELSE escrows[e].seller,
                           escrows[e].sale_amount, 0, e),
            InvoiceCallTo("mark_settled", escrows[e].invoice_id, "")>>)

\* ft_transfer of the sale amount to the winner, then mark_settled when the
\* seller won and a promise with no action when the buyer won
resolve_dispute_promise(e, winner) ==
    Chain("resolve_dispute", ESCROW, e,
          <<FtTransferCall(IF buyer_wins(e, winner) THEN escrows[e].buyer ELSE escrows[e].seller,
                           escrows[e].sale_amount, 0, e),
            IF ~buyer_wins(e, winner)
            THEN InvoiceCallTo("mark_settled", escrows[e].invoice_id, "")
            ELSE NoopCall>>)

ResolveDispute(caller, e, winner) ==
    /\ LET panic == resolve_dispute_panic(caller, e, winner) IN
       IF panic = NoPanic
       THEN /\ escrows' = resolve_dispute_do(e, winner)
            /\ promises' = promises \cup {resolve_dispute_promise(e, winner)}
            /\ last' = Rcpt("resolve_dispute", NoPanic, 0)
       ELSE /\ UNCHANGED <<escrows, promises>>
            /\ last' = Rcpt("resolve_dispute", panic, 0)
    /\ UNCHANGED <<now, invVars, mktVars, escrows_by_invoice, escrow_count>>

\* check_overdue (a view)
check_overdue(e) == escrows[e].status = "Active" /\ now > escrows[e].due_date

AutoReason == "Auto-dispute: Payment overdue"

\* mark_overdue: its own two asserts, then self.open_dispute(..) in the same
\* receipt, with the same predecessor
mark_overdue_panic(caller, e) ==
    IF ~EscrowExists(e) THEN "Escrow not found"
    ELSE IF escrows[e].status # "Active" THEN "Escrow is not active"
    ELSE IF ~(now > escrows[e].due_date) THEN "Escrow is not overdue"
    ELSE open_dispute_panic(caller, e, AutoReason)

MarkOverdue(caller, e) ==
    /\ LET panic == mark_overdue_panic(caller, e) IN
       IF panic = NoPanic
       THEN /\ escrows' = open_dispute_do(e, AutoReason)
            /\ last' = Rcpt("mark_overdue", NoPanic, 0)
       ELSE /\ UNCHANGED escrows
            /\ last' = Rcpt("mark_overdue", panic, 0)
    /\ UNCHANGED <<now, invVars, mktVars, escrows_by_invoice, escrow_count, promises>>

\* The tokens the escrow engine answers for: the sale amounts of the
\* escrows that are funded and still Active or Disputed (what settle and
\* resolve_dispute may yet push), and the amounts of its pushes in flight
\* (issued by settle or resolve_dispute, not yet run on the token)
RECURSIVE SaleAmounts(_)
SaleAmounts(S) ==
    IF S = {} THEN 0
    ELSE LET e == CHOOSE k \in S : TRUE IN escrows[e].sale_amount + SaleAmounts(S \ {e})

FundedOpen ==
    {e \in 1..escrow_count :
        escrows[e].funds_deposited /\ escrows[e].status \in {"Active", "Disputed"}}

\* the chains whose next call is an ft_transfer of the escrow engine
PushesInFlight == {c \in promises : c.pred = ESCROW /\ Head(c.calls).m = "ft_transfer"}

RECURSIVE PushAmounts(_)
PushAmounts(S) ==
    IF S = {} THEN 0
    ELSE LET c == CHOOSE k \in S : TRUE IN Head(c.calls).x + PushAmounts(S \ {c})

Owed == SaleAmounts(FundedOpen) + PushAmounts(PushesInFlight)

\* ========================================================== runtime

\* What a call to a contract outside the specification panics with
Failed == "failed"

\* The chain after its first call ran with outcome ok
Advance(c, ok) ==
    (promises \ {c}) \cup
        (IF Len(c.calls) > 1
         THEN {[c EXCEPT !.calls = Tail(@),
                         !.prev = IF ok THEN "ok" ELSE "fail",
                         !.allok = @ /\ ok]}
         ELSE {})

\* ft_transfer on the token contract: the token ledger is an external
\* collaborator, the transfer succeeds or fails as it decides
RunFtTransfer(c, ok) ==
    LET h == Head(c.calls) IN
    /\ h.m = "ft_transfer"
    /\ promises' = Advance(c, ok)
    /\ last' = Rcpt("ft_transfer", IF ok THEN NoPanic ELSE Failed, 0)
    /\ UNCHANGED <<now, invVars, mktVars, escVars>>

\* set_listed, transfer_invoice, unlist_invoice, mark_settled called by a
\* contract
RunInvoiceCall(c) ==
    LET h == Head(c.calls)
        panic == InvoiceCallPanic(h.m, c.pred, h.inv)
        ok == panic = NoPanic IN
    /\ h.to = INVOICE
    /\ invoices' = IF ok THEN InvoiceCallDo(h.m, h.inv, h.a) ELSE invoices
    /\ promises' = Advance(c, ok)
    /\ last' = Rcpt(h.m, panic, 0)
    /\ UNCHANGED <<now, invoice_count, inv_marketplace_contract, inv_escrow_contract,
                   mktVars, escVars>>

\* create_escrow called by the marketplace
RunCreateEscrow(c) ==
    LET h == Head(c.calls)
        panic == create_escrow_panic(c.pred, h.inv)
        ok == panic = NoPanic IN
    /\ h.m = "create_escrow"
    /\ IF ok
       THEN /\ escrow_count' = escrow_count + 1
            /\ escrows' = create_escrow_do(h.inv, h.a, h.b, h.x, h.y, h.d)
            /\ escrows_by_invoice' = [escrows_by_invoice EXCEPT ![h.inv] = escrow_count + 1]
       ELSE UNCHANGED <<escrows, escrows_by_invoice, escrow_count>>
    /\ promises' = Advance(c, ok)
    /\ last' = Rcpt("create_escrow", panic, IF ok THEN escrow_count + 1 ELSE 0)
    /\ UNCHANGED <<now, invVars, mktVars>>

\* on_list_callback with the outcome of set_listed
RunOnListCallback(c) ==
    LET h == Head(c.calls)
        s == on_list_callback_commit(c.prev, h.lst) IN
    /\ h.m = "on_list_callback"
    /\ listings' = s.listings
    /\ listings_by_invoice' = s.lookup
    /\ promises' = Advance(c, c.prev = "ok")
    /\ last' = Rcpt("on_list_callback", on_list_callback_panic(c.prev), 0)
    /\ UNCHANGED <<now, invVars, bids, listing_count, bid_count, escVars>>

RunNoop(c) ==
    /\ Head(c.calls).m = "noop"
    /\ promises' = Advance(c, TRUE)
    /\ last' = Rcpt("noop", NoPanic, 0)
    /\ UNCHANGED <<now, invVars, mktVars, escVars>>

\* One receipt of a promise chain in flight
RunPromise ==
    \E c \in promises :
        \/ \E ok \in BOOLEAN : RunFtTransfer(c, ok)
        \/ RunInvoiceCall(c)
        \/ RunCreateEscrow(c)
        \/ RunOnListCallback(c)
        \/ RunNoop(c)

\* The block timestamp advances
Tick ==
    /\ now < MaxTime
    /\ now' = now + 1
    /\ last' = Rcpt("tick", NoPanic, 0)
    /\ UNCHANGED <<invVars, mktVars, escVars, promises>>

\* ------------------------------------------------------------ inputs
Callers == Users \cup {ADMIN}
\* the callers of the escrow engine specified alone: seller, buyer, a
\* stranger, the admin
EscrowCallers == Users \cup {"carol", ADMIN}
\* the callers of the registry specified alone: accounts and the two
\* contracts
RegistryCallers == Users \cup {MARKETPLACE, ESCROW}
\* whom resolve_dispute is called by (the admin, and an account that is
\* not) and whom it may name the winner (everyone but the admin)
Resolvers == {ADMIN, "alice"}
Winners(callers) == callers \ {ADMIN}
\* the payments of a purchase, around the asking price of MarketTerms
Payments == 1..3
\* the deposits attached to buy_invoice and place_bid, in millinear; prices
\* and payments are counted in the same unit
Deposits == {0, 1}
\* the messages of a notification to the marketplace and to the escrow engine
MktMsgs ==
    {Msg(2, "buy_listing", l) : l \in ListingIds}
        \cup {Msg(2, "place_bid", 1), Msg(2, "sell", 1), Msg(1, "buy_listing", 0)}
\* purchase notifications (predecessor, sender, amount, message): the
\* token's for a purchase of any listing by any account with any payment,
\* one from another predecessor, and the token's with the other messages
MktNotifications ==
    {<<USDC, sender_id, amount, msg>> :
        sender_id \in Users, amount \in Payments,
        msg \in {m \in MktMsgs : m.parts >= 2 /\ m.action = "buy_listing"}}
        \cup {<<"alice", "bob", 2, Msg(2, "buy_listing", 1)>>}
        \cup {<<USDC, "bob", 2, msg>> : msg \in MktMsgs}
EscMsgs ==
    {Msg(2, "escrow_deposit", i) : i \in InvoiceIds}
        \cup {Msg(2, "deposit", 1), Msg(1, "escrow_deposit", 0)}
\* custody notifications (predecessor, sender, amount, message): the
\* token's on a transfer of the marketplace's, of either amount and with any
\* message, and one from another predecessor and one for another sender
EscNotifications ==
    {<<USDC, MARKETPLACE, amount, msg>> : amount \in 1..2, msg \in EscMsgs}
        \cup {<<"alice", MARKETPLACE, 2, Msg(2, "escrow_deposit", 1)>>,
              <<USDC, "alice", 2, Msg(2, "escrow_deposit", 1)>>}

Init ==
    /\ now = 0
    /\ invoices = <<>>
    /\ invoice_count = 0
    /\ inv_marketplace_contract = MARKETPLACE
    /\ inv_escrow_contract = ESCROW
    /\ listings = <<>>
    /\ listings_by_invoice = [i \in InvoiceIds |-> None]
    /\ bids = [l \in ListingIds |-> <<>>]
    /\ listing_count = 0
    /\ bid_count = 0
    /\ escrows = <<>>
    /\ escrows_by_invoice = [i \in InvoiceIds |-> None]
    /\ escrow_count = 0
    /\ promises = {}
    /\ last = Rcpt("init", NoPanic, 0)

\* what create_invoice is given (deposit, amount, debtor_name, description,
\* due_date, documents_hash): what it accepts, and that with one of the six
\* changed to what it rejects
InvoiceInputs ==
    {<<10, 2, "x", "x", MaxTime + 1, "x">>, <<0, 2, "x", "x", MaxTime + 1, "x">>,
     <<10, 0, "x", "x", MaxTime + 1, "x">>, <<10, 2, "", "x", MaxTime + 1, "x">>,
     <<10, 2, "x", "", MaxTime + 1, "x">>, <<10, 2, "x", "x", 0, "x">>,
     <<10, 2, "x", "x", MaxTime + 1, "">>}

\* create_invoice called by an account, while the ledger is below its bound
RegistryCreation(callers) ==
    /\ invoice_count < MaxInvoices
    /\ \E caller \in callers, t \in InvoiceInputs :
          CreateInvoice(caller, t[1], t[2], t[3], t[4], t[5], t[6])

\* set_marketplace_contract and set_escrow_contract called by an account,
\* naming the contract or the account itself
RegistrySetup(callers) ==
    \E caller \in callers :
       \/ \E a \in {MARKETPLACE, caller} : SetMarketplaceContract(caller, a)
       \/ \E a \in {ESCROW, caller} : SetEscrowContract(caller, a)

\* The other calls accounts make to the invoice registry
RegistryCalls(callers, ids) ==
    \E m \in InvoiceMethods, caller \in callers, i \in ids, a \in Users :
        InvoiceCall(m, caller, i, a)

\* The calls accounts make to the marketplace (list_invoice and place_bid
\* while their ledgers are below their bounds)
MarketplaceCalls(sellers, ids, terms, bid_amounts) ==
    \/ /\ listing_count < MaxListings
       /\ \E caller \in sellers, invoice_id \in ids, t \in terms :
             ListInvoice(caller, invoice_id, t[1], t[2], t[3], t[4], t[5])
    \/ \E n \in MktNotifications : MktFtOnTransfer(n[1], n[2], n[3], n[4])
    \/ \E caller \in Users, deposit \in Deposits, l \in ListingIds : BuyInvoice(caller, deposit, l)
    \/ \E caller \in Users, l \in ListingIds : CancelListing(caller, l)
    \/ /\ bid_count < MaxBids
       /\ \E caller \in Users, deposit \in Deposits, l \in ListingIds, amount \in bid_amounts :
             PlaceBid(caller, deposit, l, amount)
    \/ \E caller \in Users, l \in ListingIds, bid_id \in BidIds : AcceptBid(caller, l, bid_id)
    \/ \E caller \in Users, l \in ListingIds, bid_id \in BidIds : CancelBid(caller, l, bid_id)

\* create_escrow called by an account
EscrowCreation(creators, ids) ==
    \E caller \in creators, invoice_id \in ids :
        CreateEscrow(caller, invoice_id, "alice", "bob", 2, 2, 0)

\* The other calls accounts make to the escrow engine
EscrowCalls(callers) ==
    \/ \E n \in EscNotifications : EscFtOnTransfer(n[1], n[2], n[3], n[4])
    \/ \E caller \in callers, e \in EscrowIds : Settle(caller, e)
    \/ \E caller \in callers, e \in EscrowIds : SimulateDebtorPayment(caller, e)
    \/ \E caller \in callers, e \in EscrowIds, reason \in {"", "late"} :
          OpenDispute(caller, e, reason)
    \/ \E caller \in Resolvers, e \in EscrowIds, winner \in Winners(callers) :
          ResolveDispute(caller, e, winner)
    \/ \E caller \in callers, e \in EscrowIds : MarkOverdue(caller, e)

\* ----------------------------------------------------- the whole system
\* The three contracts together.  A direct call that panics changes nothing
\* but `last`, so the system's behaviours are given without those steps; the
\* receipts of promise chains are all there, failed ones included.  Escrows
\* are created by the marketplace's chains (the admin's own create_escrow
\* calls are in SpecEscrow).
\* The terms of the listings of Spec (asking price, invoice amount, due date,
\* minimum price, expiry) and the amounts of its bids
SysTerms == {<<1, 2, 0, None, None>>}
SysBids == {2}

\* a direct call that completes, within the bounds of the system
Completes ==
    /\ last'.ok
    /\ listing_count' <= SysListings
    /\ Cardinality(promises') <= SysPending

Next ==
    \/ /\ \/ RegistryCreation(Users)
          \/ RegistryCalls(Users, InvoiceIds)
          \/ MarketplaceCalls(Users, InvoiceIds, SysTerms, SysBids)
          \/ EscrowCalls(Callers)
       /\ Completes
    \/ RunPromise
    \/ Tick

Spec == Init /\ [][Next]_vars

\* Every promise chain in flight is run in the end: the runtime executes the
\* receipts it has scheduled
FairSpec == Spec /\ WF_vars(RunPromise)

\* The system as its users trade: invoices created, and from there only the
\* marketplace's and the escrow engine's operations (list, purchase, bid,
\* cancel, settle, dispute) with the receipts of their chains; no account
\* calls set_listed, unlist_invoice or cancel_invoice of the registry itself
NextTrade ==
    \/ /\ \/ RegistryCreation(Users)
          \/ MarketplaceCalls(Users, InvoiceIds, SysTerms, SysBids)
          \/ EscrowCalls(Callers)
       /\ Completes
    \/ RunPromise
    \/ Tick

SpecTrade == Init /\ [][NextTrade]_vars

\* A call of a chain to a contract the specification does not hold (the
\* token, or the registry or the escrow engine where a contract is specified
\* alone): it succeeds or fails as that contract decides
RunExternal(c, ok) ==
    /\ Head(c.calls).to # c.pred
    /\ promises' = Advance(c, ok)
    /\ last' = Rcpt(Head(c.calls).m, IF ok THEN NoPanic ELSE Failed, 0)
    /\ UNCHANGED <<now, invVars, mktVars, escVars>>

\* ------------------------------------------------ the invoice registry
\* The registry alone, called by accounts and by the two contracts
NextRegistry ==
    \/ RegistryCreation(Users)
    \/ RegistryCalls(RegistryCallers, InvoiceIds)
    \/ RegistrySetup({"alice"})
    \/ Tick

SpecRegistry == Init /\ [][NextRegistry]_vars

\* --------------------------------------------------- the escrow engine
\* The escrow engine alone, called by accounts and by the marketplace
EscrowCreators == {ADMIN, MARKETPLACE, "alice"}

NextEscrow ==
    \/ EscrowCreation(EscrowCreators, InvoiceIds)
    \/ EscrowCalls(EscrowCallers)
    \/ \E c \in promises, ok \in BOOLEAN : RunExternal(c, ok)
    \/ Tick

SpecEscrow == Init /\ [][NextEscrow]_vars

\* ----------------------------------------------------- the marketplace
\* The seller of the listings of SpecMarket, and their terms: one with a
\* minimum price and an expiry, and the two list_invoice rejects
MarketSellers == {"alice"}
MarketTerms == {<<2, 2, 0, 2, 1>>, <<0, 2, 0, None, None>>, <<3, 2, 0, None, None>>}

\* The marketplace alone.  Of the promise chains it starts, the one of
\* list_invoice comes back to it (on_list_callback); the receipts of the
\* others are the registry's, the token's and the escrow engine's, and
\* change nothing the marketplace holds: those chains stay in `promises`.
NextMarket ==
    \/ MarketplaceCalls(MarketSellers, InvoiceIds, MarketTerms, 1..2)
    \/ \E c \in promises, ok \in BOOLEAN : c.op = "list_invoice" /\ RunExternal(c, ok)
    \/ \E c \in promises : RunOnListCallback(c)
    \/ Tick

SpecMarket == Init /\ [][NextMarket]_vars

\* --------------------------------------------------------- the ledgers
\* The creations of the four ledgers, each ledger alone: create_invoice,
\* list_invoice with the outcome of its set_listed and its callback,
\* place_bid and create_escrow, for the invoice ids 1..MaxRecords.  A
\* listing or an escrow is asked for the invoice of the last one (and
\* refused) or for the next invoice; a bid is placed on the last listing.
LedgerIds == 1..MaxRecords

InitLedgers ==
    /\ now = 0
    /\ invoices = <<>>
    /\ invoice_count = 0
    /\ inv_marketplace_contract = MARKETPLACE
    /\ inv_escrow_contract = ESCROW
    /\ listings = <<>>
    /\ listings_by_invoice = [i \in LedgerIds |-> None]
    /\ bids = [l \in ListingIds |-> <<>>]
    /\ listing_count = 0
    /\ bid_count = 0
    /\ escrows = <<>>
    /\ escrows_by_invoice = [i \in LedgerIds |-> None]
    /\ escrow_count = 0
    /\ promises = {}
    /\ last = Rcpt("init", NoPanic, 0)

NextLedgers ==
    \/ /\ invoice_count < MaxRecords
       /\ \E t \in InvoiceInputs : CreateInvoice("alice", t[1], t[2], t[3], t[4], t[5], t[6])
    \/ /\ listing_count < MaxListings
       /\ \E invoice_id \in {listing_count, listing_count + 1} \cap LedgerIds, t \in MarketTerms :
             ListInvoice("alice", invoice_id, t[1], t[2], t[3], t[4], t[5])
    \/ \E c \in promises, ok \in BOOLEAN : c.op = "list_invoice" /\ RunExternal(c, ok)
    \/ \E c \in promises : RunOnListCallback(c)
    \/ /\ bid_count < MaxRecords
       /\ \E deposit \in Deposits, l \in {listing_count} \cap ListingIds :
             PlaceBid("bob", deposit, l, 2)
    \/ \E caller \in {MARKETPLACE, "alice"},
          invoice_id \in {escrow_count, escrow_count + 1} \cap LedgerIds :
          CreateEscrow(caller, invoice_id, "alice", "bob", 2, 2, 0)

SpecLedgers == InitLedgers /\ [][NextLedgers]_vars

\* ------------------------------------------------------------ the bids
\* The marketplace's listings and their bids: the one invoice listed, and
\* listed again once its listing was cancelled, and up to MaxRecords bids
\* placed, cancelled and accepted.  The chains these calls start are the
\* registry's and the escrow engine's to run: they stay in `promises`.
BidAmounts == 1..2

NextBids ==
    \/ /\ listing_count < MaxListings
       /\ \E t \in MarketTerms : ListInvoice("alice", 1, t[1], t[2], t[3], t[4], t[5])
    \/ \E caller \in Users, l \in ListingIds : CancelListing(caller, l)
    \/ /\ bid_count < MaxRecords
       /\ \E caller \in Users, deposit \in Deposits, l \in ListingIds, amount \in BidAmounts :
             PlaceBid(caller, deposit, l, amount)
    \/ \E caller \in Users, l \in ListingIds, bid_id \in 1..MaxRecords :
          AcceptBid(caller, l, bid_id)
    \/ \E caller \in Users, l \in ListingIds, bid_id \in 1..MaxRecords :
          CancelBid(caller, l, bid_id)

SpecBids == Init /\ [][NextBids]_vars

\* ------------------------------------------------- each contract alone
\* The three contracts, each called alone from the initial state: the calls
\* of SpecRegistry while the marketplace and the escrow engine hold nothing,
\* those of SpecMarket while the registry and the escrow engine hold
\* nothing, those of SpecEscrow while the registry and the marketplace hold
\* nothing.  A method of one ledger reads and writes that ledger alone.
RegistryFresh ==
    /\ invoice_count = 0
    /\ inv_marketplace_contract = MARKETPLACE
    /\ inv_escrow_contract = ESCROW
MarketFresh == listing_count = 0
EscrowFresh == escrow_count = 0

NextSingle ==
    \/ MarketFresh /\ EscrowFresh /\ NextRegistry
    \/ RegistryFresh /\ EscrowFresh /\ NextMarket
    \/ RegistryFresh /\ MarketFresh /\ NextEscrow

SpecSingle == Init /\ [][NextSingle]_vars

\* ------------------------------------------------------ the risk score
\* create_invoice alone, for amounts in each of the four tiers and due dates
\* a moment, 30, 60 and 90 days after the last block timestamp, and for what
\* it rejects, at every block timestamp
RiskAmounts == {1, 1000000, 5000000, 10000000}
RiskDueDates == {MaxTime + 1} \cup {MaxTime + d * DaySeconds : d \in {30, 60, 90}}
RiskInputs ==
    {<<10, amount, "x", "x", due_date, "x">> : amount \in RiskAmounts, due_date \in RiskDueDates}
        \cup InvoiceInputs

NextRisk ==
    \/ /\ invoice_count < MaxRecords
       /\ \E t \in RiskInputs : CreateInvoice("alice", t[1], t[2], t[3], t[4], t[5], t[6])
    \/ Tick

SpecRisk == Init /\ [][NextRisk]_vars

\* ------------------------------------------- the purchase by notification
\* A sale by custody notification from end to end, with a token on which
\* every ft_transfer succeeds: the invoice created and listed by alice, the
\* token's purchase notifications for bob, the receipts of the chains, and
\* settle called on the escrow.  The token notifies the escrow engine of no
\* deposit but what the chains themselves cause: ft_transfer, the call of
\* process_usdc_purchase, settle and resolve_dispute, moves the tokens and
\* calls nothing on the receiver.
RunDelivered ==
    \E c \in promises :
        \/ RunFtTransfer(c, TRUE)
        \/ RunInvoiceCall(c)
        \/ RunCreateEscrow(c)
        \/ RunOnListCallback(c)

NextPurchase ==
    \/ RegistryCreation({"alice"})
    \/ /\ listing_count < SysListings
       /\ \E t \in SysTerms : ListInvoice("alice", 1, t[1], t[2], t[3], t[4], t[5])
    \/ \E amount \in Payments, l \in 1..SysListings :
          MktFtOnTransfer(USDC, "bob", amount, Msg(2, "buy_listing", l))
    \/ RunDelivered
    \/ \E caller \in Users, e \in EscrowIds : Settle(caller, e)
    \/ Tick

SpecPurchase == Init /\ [][NextPurchase]_vars

\* The runtime executes the receipts it has scheduled
FairPurchase == SpecPurchase /\ WF_vars(RunDelivered)

\* ------------------------------------------------------------ the sales
\* The sales of the marketplace from end to end: alice's invoice created and
\* listed (SysTerms: asking price 1, invoice amount 2, no minimum price),
\* bought by bob by notification or with buy_invoice, or bid for by bob with
\* an amount of 0 to 3 and the bid accepted by alice; the receipts of the
\* chains, on a token on which every ft_transfer succeeds.
SaleBids == 0..3

NextSale ==
    \/ RegistryCreation({"alice"})
    \/ /\ listing_count < SysListings
       /\ \E t \in SysTerms : ListInvoice("alice", 1, t[1], t[2], t[3], t[4], t[5])
    \/ \E amount \in Payments, l \in 1..SysListings :
          MktFtOnTransfer(USDC, "bob", amount, Msg(2, "buy_listing", l))
    \/ \E deposit \in Deposits, l \in 1..SysListings : BuyInvoice("bob", deposit, l)
    \/ /\ bid_count < MaxBids
       /\ \E deposit \in Deposits, l \in 1..SysListings, amount \in SaleBids :
             PlaceBid("bob", deposit, l, amount)
    \/ \E l \in 1..SysListings, bid_id \in BidIds : AcceptBid("alice", l, bid_id)
    \/ RunDelivered

SpecSale == Init /\ [][NextSale]_vars

\* ================================================================ claims

\* ------------------------------------------------------------------ C1
\* C1: an escrow moves to Released or Refunded only in a step of settle,
\* simulate_debtor_payment or resolve_dispute taken while its funds_deposited
\* flag is true; settle, simulate_debtor_payment and resolve_dispute on an
\* escrow whose flag is false panic, leave every escrow as it was and start
\* no promise.
C1_FundsRequired ==
    [][/\ \A e \in 1..escrow_count :
             (escrows[e].status \notin {"Released", "Refunded"}
                 /\ escrows'[e].status \in {"Released", "Refunded"})
                => /\ escrows[e].funds_deposited
                   /\ last'.op \in {"settle", "simulate_debtor_payment", "resolve_dispute"}
       /\ last'.op \in {"settle", "simulate_debtor_payment", "resolve_dispute"} =>
             \A caller \in EscrowCallers, e \in 1..escrow_count :
                (/\ ~escrows[e].funds_deposited
                 /\ \/ Settle(caller, e)
                    \/ SimulateDebtorPayment(caller, e)
                    \/ /\ caller \in Resolvers
                       /\ \E winner \in Winners(EscrowCallers) :
                             ResolveDispute(caller, e, winner))
                   => ~last'.ok /\ escrows' = escrows /\ promises' = promises]_vars

\* resolve_dispute has just been refused on a Disputed escrow without funds
C1_Witness ==
    /\ \E e \in 1..escrow_count :
          escrows[e].status = "Disputed" /\ ~escrows[e].funds_deposited
    /\ last.op = "resolve_dispute"
    /\ last.panic = "No funds deposited in escrow"

\* ------------------------------------------------------------------ C2
\* C2: an escrow is created Active; its status changes only along
\* Active -> Released, Active -> Disputed, Active -> Refunded,
\* Disputed -> Released, Disputed -> Refunded; the status of a Released or
\* Refunded escrow never changes again, whatever operation is called.
C2_EscrowTransitions ==
    [][/\ \A e \in (DOMAIN escrows') \ (DOMAIN escrows) : escrows'[e].status = "Active"
       /\ \A e \in 1..escrow_count :
             /\ escrows'[e].status # escrows[e].status =>
                   <<escrows[e].status, escrows'[e].status>> \in
                      {<<"Active", "Released">>, <<"Active", "Disputed">>,
                       <<"Active", "Refunded">>, <<"Disputed", "Released">>,
                       <<"Disputed", "Refunded">>}
             /\ escrows[e].status \in {"Released", "Refunded"} =>
                   escrows'[e].status = escrows[e].status]_vars

\* open_dispute has just been refused on the one escrow there is, which was
\* refunded
C2_Witness ==
    /\ escrow_count = 1
    /\ escrows[1].status = "Refunded"
    /\ last.op = "open_dispute"
    /\ last.panic = "Escrow is not active"

\* ------------------------------------------------------------------ C6
\* C6: settle on an escrow that is not Active and resolve_dispute on an
\* escrow that is not Disputed panic, leave every field of every escrow as it
\* was and start no promise (no fund push, no notification of the registry).
C6_WrongStatusRefused ==
    [][/\ last'.op = "settle" =>
             \A caller \in EscrowCallers, e \in 1..escrow_count :
                (escrows[e].status # "Active" /\ Settle(caller, e))
                   => ~last'.ok /\ escrows' = escrows /\ promises' = promises
       /\ last'.op = "resolve_dispute" =>
             \A caller \in Resolvers, e \in 1..escrow_count,
                winner \in Winners(EscrowCallers) :
                (escrows[e].status # "Disputed" /\ ResolveDispute(caller, e, winner))
                   => ~last'.ok /\ escrows' = escrows /\ promises' = promises]_vars

\* The admin's resolve_dispute has just been refused on an escrow that is
\* not disputed
C6_Witness ==
    /\ escrow_count = 1
    /\ escrows[1].status = "Active"
    /\ escrows[1].funds_deposited
    /\ last.op = "resolve_dispute"
    /\ last.panic = "Escrow is not disputed"

\* ------------------------------------------------------------------ C7
\* C7: a custody notification that names an invoice whose escrow already has
\* funds_deposited = TRUE leaves the flag TRUE and every escrow as it was,
\* and starts no promise.
C7_DuplicateNotification ==
    [][last'.op = "esc_ft_on_transfer" =>
       \A n \in EscNotifications :
          (/\ esc_ft_matches(n[4])
           /\ escrows[EscrowOf(n[4].id)].funds_deposited
           /\ EscFtOnTransfer(n[1], n[2], n[3], n[4]))
             => /\ escrows'[EscrowOf(n[4].id)].funds_deposited
                /\ escrows' = escrows
                /\ promises' = promises]_vars

\* A notification has just been processed when the one escrow there is had
\* its funds, and had been settled with them
C7_Witness ==
    /\ escrow_count = 1
    /\ escrows[1].funds_deposited
    /\ escrows[1].status = "Released"
    /\ last.op = "esc_ft_on_transfer"
    /\ last.ok

\* ------------------------------------------------------------------ C8
\* C8: an invoice is created Draft and its status changes only along the
\* registry's table, each edge by its own method: Draft -> Listed
\* (set_listed), Listed -> Draft (unlist_invoice), Listed -> Sold
\* (transfer_invoice), Sold -> Settled (mark_settled), Draft -> Cancelled
\* (cancel_invoice); a method called on an invoice in another status than
\* its edge starts from panics and leaves every invoice as it was; no step
\* changes a Settled or Cancelled invoice.
C8_InvoiceTransitions ==
    [][/\ \A i \in (DOMAIN invoices') \ (DOMAIN invoices) : invoices'[i].status = "Draft"
       /\ \A i \in 1..invoice_count :
             /\ invoices'[i].status # invoices[i].status =>
                   <<invoices[i].status, invoices'[i].status, last'.op>> \in
                      {<<"Draft", "Listed", "set_listed">>,
                       <<"Listed", "Draft", "unlist_invoice">>,
                       <<"Listed", "Sold", "transfer_invoice">>,
                       <<"Sold", "Settled", "mark_settled">>,
                       <<"Draft", "Cancelled", "cancel_invoice">>}
             /\ invoices[i].status \in {"Settled", "Cancelled"} => invoices'[i] = invoices[i]
       /\ last'.op \in InvoiceMethods =>
             \A caller \in RegistryCallers, i \in 1..invoice_count, a \in Users :
                (/\ <<last'.op, invoices[i].status>> \notin
                       {<<"set_listed", "Draft">>, <<"unlist_invoice", "Listed">>,
                        <<"transfer_invoice", "Listed">>, <<"mark_settled", "Sold">>,
                        <<"cancel_invoice", "Draft">>}
                 /\ InvoiceCall(last'.op, caller, i, a))
                   => ~last'.ok /\ invoices' = invoices]_vars

\* The owner's cancel_invoice has just been refused on the one invoice there
\* is, which is Settled
C8_Witness ==
    /\ invoice_count = 1
    /\ invoices[1].status = "Settled"
    /\ last.op = "cancel_invoice"
    /\ last.panic = "Can only cancel draft invoices"

\* ------------------------------------------------------------------ C9
\* C9: in every state of the marketplace at most one listing with
\* active = TRUE exists for an invoice id; list_invoice for an invoice that
\* has an active listing panics, and leaves the listings, the lookup and the
\* promises as they were.
C9_OneActiveListing ==
    /\ [](\A i \in InvoiceIds :
            Cardinality({l \in DOMAIN listings :
                            listings[l].active /\ listings[l].invoice_id = i}) <= 1)
    /\ [][last'.op = "list_invoice" =>
             \A caller \in MarketSellers, i \in InvoiceIds, t \in MarketTerms :
                (/\ \E l \in DOMAIN listings : listings[l].active /\ listings[l].invoice_id = i
                 /\ ListInvoice(caller, i, t[1], t[2], t[3], t[4], t[5]))
                   => /\ ~last'.ok
                      /\ UNCHANGED <<listings, listings_by_invoice, listing_count, promises>>]_vars

\* list_invoice has just been refused for an invoice that has an active
\* listing
C9_Witness ==
    /\ \E l \in DOMAIN listings : listings[l].active /\ listings[l].invoice_id = 1
    /\ last.op = "list_invoice"
    /\ last.panic = "Invoice already listed"

\* ------------------------------------------------------------------ C3
\* C3: whenever no promise chain is in flight the three ledgers agree: for
\* every invoice, an escrow exists for it exactly when its status is Sold or
\* Settled, and then its owner is the escrow's buyer; and an active listing
\* exists for it exactly when its status is Listed.
C3_LedgersConsistent ==
    promises = {} =>
        \A i \in 1..invoice_count :
            /\ EscrowOf(i) # 0 <=> invoices[i].status \in {"Sold", "Settled"}
            /\ EscrowOf(i) # 0 => invoices[i].owner = escrows[EscrowOf(i)].buyer
            /\ (\E l \in DOMAIN listings : listings[l].active /\ listings[l].invoice_id = i)
                  <=> invoices[i].status = "Listed"

\* ------------------------------------------------------------------ C4
\* C4: the happy path.  When every call of a purchase chain has succeeded,
\* its create_escrow leaves the invoice Sold and owned by the buyer, and a
\* new Active escrow for the invoice with funds_deposited = FALSE.  The flag
\* of an escrow becomes TRUE only in a custody notification that completes,
\* and a notification from the marketplace that names the invoice with at
\* least the sale amount sets it.  settle by a party on a funded Active
\* escrow moves it to Released and starts the chain that pays out and
\* notifies the registry; the mark_settled of that chain moves the Sold
\* invoice to Settled, and it is run in the end.
C4_HappyPath ==
    /\ [][/\ last'.op = "create_escrow" =>
                \A c \in promises :
                   (c.op = "purchase" /\ c.allok /\ RunCreateEscrow(c) /\ last'.ok) =>
                      LET h == Head(c.calls)
                          e == escrows_by_invoice'[h.inv] IN
                      /\ invoices[h.inv].status = "Sold"
                      /\ invoices[h.inv].owner = h.b
                      /\ e \in (DOMAIN escrows') \ (DOMAIN escrows)
                      /\ escrows'[e].invoice_id = h.inv
                      /\ escrows'[e].buyer = h.b
                      /\ escrows'[e].status = "Active"
                      /\ ~escrows'[e].funds_deposited
          /\ \A e \in 1..escrow_count :
                (~escrows[e].funds_deposited /\ escrows'[e].funds_deposited)
                   => last'.op = "esc_ft_on_transfer" /\ last'.ok
          /\ last'.op = "esc_ft_on_transfer" =>
                \A n \in EscNotifications :
                   (/\ n[1] = USDC /\ n[2] = MARKETPLACE
                    /\ esc_ft_matches(n[4])
                    /\ n[3] >= escrows[EscrowOf(n[4].id)].sale_amount
                    /\ EscFtOnTransfer(n[1], n[2], n[3], n[4]))
                      => last'.ok /\ escrows'[EscrowOf(n[4].id)].funds_deposited
          /\ last'.op = "settle" =>
                \A caller \in Callers, e \in 1..escrow_count :
                   (/\ escrows[e].status = "Active"
                    /\ escrows[e].funds_deposited
                    /\ caller \in {escrows[e].seller, escrows[e].buyer, ADMIN}
                    /\ Settle(caller, e))
                      => /\ last'.ok
                         /\ escrows'[e].status = "Released"
                         /\ settle_promise(e) \in promises'
          /\ last'.op = "mark_settled" =>
                \A c \in promises :
                   (/\ c.op = "settle"
                    /\ c.allok
                    /\ InvoiceExists(escrows[c.id].invoice_id)
                    /\ invoices[escrows[c.id].invoice_id].status = "Sold"
                    /\ RunInvoiceCall(c))
                      => last'.ok /\ invoices'[escrows[c.id].invoice_id].status = "Settled"]_vars
    /\ \A e \in EscrowIds :
          (/\ \E c \in promises : c.op = "settle" /\ c.id = e
           /\ InvoiceExists(escrows[e].invoice_id)
           /\ invoices[escrows[e].invoice_id].status = "Sold")
             ~> (/\ EscrowExists(e)
                 /\ InvoiceExists(escrows[e].invoice_id)
                 /\ invoices[escrows[e].invoice_id].status = "Settled")

\* The invoice sold at its asking price is Settled and its escrow, funded,
\* is Released: the registry has just run mark_settled
C4_Witness ==
    /\ invoice_count = 1 /\ escrow_count = 1 /\ 1 \in DOMAIN listings
    /\ invoices[1].status = "Settled"
    /\ ~listings[1].active
    /\ escrows[1].status = "Released"
    /\ escrows[1].funds_deposited
    /\ escrows[1].sale_amount = listings[1].asking_price
    /\ invoices[1].owner = escrows[1].buyer
    /\ promises = {}
    /\ last.op = "mark_settled"
    /\ last.ok

\* ------------------------------------------------------------------ C5
\* C5: dispute outcomes.  open_dispute by the buyer or the seller on an
\* Active escrow with a non-empty reason makes it Disputed and records the
\* reason.  The admin's resolve_dispute for the buyer makes the escrow
\* Refunded and starts a chain that pushes the sale amount to the buyer and
\* holds no call to the registry: no receipt of that chain changes an
\* invoice.  resolve_dispute for the seller makes the escrow Released and
\* starts a chain that pushes the sale amount to the seller and then calls
\* mark_settled: the Sold invoice becomes Settled in the end.
C5_DisputeOutcomes ==
    /\ [][/\ last'.op = "open_dispute" =>
                \A caller \in Callers, e \in 1..escrow_count, reason \in {"late"} :
                   (/\ escrows[e].status = "Active"
                    /\ caller \in {escrows[e].buyer, escrows[e].seller}
                    /\ OpenDispute(caller, e, reason))
                      => /\ last'.ok
                         /\ escrows'[e].status = "Disputed"
                         /\ escrows'[e].dispute_reason = reason
          /\ last'.op = "resolve_dispute" =>
                \A e \in 1..escrow_count, winner \in Winners(Callers) :
                   (ResolveDispute(ADMIN, e, winner) /\ last'.ok) =>
                      \E c \in promises' \ promises :
                         LET push == Head(c.calls) IN
                         /\ c.id = e
                         /\ push.m = "ft_transfer" /\ push.x = escrows[e].sale_amount
                         /\ IF winner = escrows[e].buyer
                            THEN /\ escrows'[e].status = "Refunded"
                                 /\ push.a = escrows[e].buyer
                                 /\ \A k \in 1..Len(c.calls) : c.calls[k].to # INVOICE
                            ELSE /\ escrows'[e].status = "Released"
                                 /\ push.a = escrows[e].seller
                                 /\ c.calls[2] =
                                       InvoiceCallTo("mark_settled", escrows[e].invoice_id, "")
          /\ \A c \in promises :
                (/\ c.op = "resolve_dispute"
                 /\ escrows[c.id].status = "Refunded"
                 /\ promises' \in {Advance(c, TRUE), Advance(c, FALSE)})
                   => invoices' = invoices]_vars
    /\ \A e \in EscrowIds :
          (/\ \E c \in promises : c.op = "resolve_dispute" /\ c.id = e
           /\ escrows[e].status = "Released"
           /\ InvoiceExists(escrows[e].invoice_id)
           /\ invoices[escrows[e].invoice_id].status = "Sold")
             ~> (/\ EscrowExists(e)
                 /\ InvoiceExists(escrows[e].invoice_id)
                 /\ invoices[escrows[e].invoice_id].status = "Settled")

\* The dispute was resolved for the buyer and the chain of resolve_dispute
\* has run to its end: the escrow is Refunded and the invoice still Sold
C5_Witness ==
    /\ invoice_count = 1 /\ escrow_count = 1
    /\ escrows[1].status = "Refunded"
    /\ escrows[1].dispute_reason = "late"
    /\ invoices[1].status = "Sold"
    /\ promises = {}
    /\ last.op = "noop"

\* ----------------------------------------------------------------- C10
\* C10: when the set_listed call of list_invoice has failed, then after
\* on_list_callback has run the listing is absent from the listings, the
\* lookup has no entry for its invoice, and the callback reports failure.
C10_ListingRolledBack ==
    [][last'.op = "on_list_callback" =>
          \A c \in promises :
             (c.prev = "fail" /\ RunOnListCallback(c)) =>
                LET l == Head(c.calls).lst IN
                /\ ~last'.ok
                /\ l \notin DOMAIN listings'
                /\ ListingExists(l) => listings_by_invoice'[listings[l].invoice_id] = None]_vars

\* ----------------------------------------------------------------- C11
\* C11: a purchase, by custody notification or by buy_invoice, of a listing
\* that is inactive, or whose seller is the buyer, or that has expired, or
\* with a payment below the asking price, panics and leaves the listings,
\* the lookup, the bids and the promises as they were.
C11_PurchaseRejected ==
    [][/\ last'.op = "mkt_ft_on_transfer" =>
             \A buyer \in Users, payment \in Payments, l \in DOMAIN listings :
                (/\ \/ ~listings[l].active
                    \/ listings[l].seller = buyer
                    \/ Expired(l)
                    \/ payment < listings[l].asking_price
                 /\ MktFtOnTransfer(USDC, buyer, payment, Msg(2, "buy_listing", l)))
                   => /\ ~last'.ok
                      /\ UNCHANGED <<listings, listings_by_invoice, bids, promises>>
       /\ last'.op = "buy_invoice" =>
             \A buyer \in Users, payment \in Deposits, l \in DOMAIN listings :
                (/\ \/ ~listings[l].active
                    \/ listings[l].seller = buyer
                    \/ Expired(l)
                    \/ payment < listings[l].asking_price
                 /\ BuyInvoice(buyer, payment, l))
                   => /\ ~last'.ok
                      /\ UNCHANGED <<listings, listings_by_invoice, bids, promises>>]_vars

\* ----------------------------------------------------------------- C12
\* C12: a purchase that completes, by custody notification or by
\* buy_invoice, deactivates the listing, removes the lookup entry of its
\* invoice and starts one chain of three calls: ft_transfer of the asking
\* price to the escrow engine with the invoice id in the memo, then
\* transfer_invoice to the buyer, then create_escrow.  A receipt of that
\* chain is the receipt of its first call still to run, and whether it
\* completes or fails the calls after it stay in flight.
C12_PurchaseOrder ==
    [][/\ (last'.op \in {"mkt_ft_on_transfer", "buy_invoice"} /\ last'.ok) =>
             \A buyer \in Users, l \in DOMAIN listings :
                (\/ \E payment \in Payments :
                       MktFtOnTransfer(USDC, buyer, payment, Msg(2, "buy_listing", l))
                 \/ \E deposit \in Deposits : BuyInvoice(buyer, deposit, l))
                   => LET L == listings[l] IN
                      /\ ~listings'[l].active
                      /\ listings_by_invoice'[L.invoice_id] = None
                      /\ \E c \in promises' \ promises :
                            /\ promises' = promises \cup {c}
                            /\ c.id = l
                            /\ c.calls =
                                  <<FtTransferCall(ESCROW, L.asking_price, L.invoice_id, 0),
                                    InvoiceCallTo("transfer_invoice", L.invoice_id, buyer),
                                    CreateEscrowCall(L.invoice_id, L.seller, buyer,
                                                     L.asking_price, L.invoice_amount,
                                                     L.due_date)>>
       /\ \A c \in promises \ promises' :
             c.op \in {"purchase", "buy_invoice"} =>
                /\ last'.op = Head(c.calls).m
                /\ promises' \in {Advance(c, TRUE), Advance(c, FALSE)}]_vars

\* ----------------------------------------------------------------- C13
\* C13: a custody-notification purchase accepted with payment p for a
\* listing of asking price a returns p - a in its own receipt, when none of
\* the three calls of its chain has run, and the first call of the chain
\* pushes a to the escrow engine: returned + pushed = p.
C13_ExcessReturned ==
    [][(last'.op = "mkt_ft_on_transfer" /\ last'.ok) =>
          \A buyer \in Users, p \in Payments, l \in DOMAIN listings :
             MktFtOnTransfer(USDC, buyer, p, Msg(2, "buy_listing", l)) =>
                \E c \in promises' \ promises :
                   LET push == Head(c.calls)
                       a == listings[l].asking_price IN
                   /\ Len(c.calls) = 3 /\ c.prev = "none"
                   /\ push.m = "ft_transfer" /\ push.a = ESCROW /\ push.x = a
                   /\ p >= a
                   /\ last'.ret = p - a
                   /\ last'.ret + push.x = p]_vars

\* A purchase has just been accepted with a payment above the asking price,
\* and returned the excess
C13_Witness ==
    /\ last.op = "mkt_ft_on_transfer"
    /\ last.ok
    /\ last.ret = 1
    /\ \E c \in promises :
          /\ c.op = "purchase" /\ Len(c.calls) = 3
          /\ Head(c.calls).x = listings[c.id].asking_price

\* ----------------------------------------------------------------- C14
\* C14: in every state at most one escrow references an invoice id, and the
\* lookup of that invoice points to it.  create_escrow called by the
\* marketplace or the admin for an invoice no escrow references completes and
\* adds one record, Active, with funds_deposited = FALSE and the seller, buyer
\* and amounts given, leaving the other records as they were; called by
\* anyone else, or for an invoice that has an escrow, it panics and changes
\* nothing.
C14_OneEscrowPerInvoice ==
    /\ [](\A i \in InvoiceIds :
            LET E == {e \in 1..escrow_count : escrows[e].invoice_id = i} IN
            /\ Cardinality(E) <= 1
            /\ \A e \in E : escrows_by_invoice[i] = e)
    /\ [][last'.op = "create_escrow" =>
             \A caller \in EscrowCreators, i \in InvoiceIds :
                CreateEscrow(caller, i, "alice", "bob", 2, 2, 0) =>
                   IF /\ caller \in {MARKETPLACE, ADMIN}
                      /\ \A e \in 1..escrow_count : escrows[e].invoice_id # i
                   THEN /\ last'.ok
                        /\ escrow_count' = escrow_count + 1
                        /\ DOMAIN escrows' = 1..escrow_count'
                        /\ escrows'[escrow_count'] =
                              [invoice_id |-> i, seller |-> "alice", buyer |-> "bob",
                               sale_amount |-> 2, invoice_amount |-> 2, due_date |-> 0,
                               status |-> "Active", settled_at |-> None,
                               dispute_reason |-> NoReason, funds_deposited |-> FALSE]
                        /\ \A e \in 1..escrow_count : escrows'[e] = escrows[e]
                        /\ escrows_by_invoice'[i] = escrow_count'
                   ELSE /\ ~last'.ok
                        /\ UNCHANGED <<escrows, escrows_by_invoice, escrow_count>>]_vars

\* The admin's create_escrow has just been refused for an invoice whose
\* escrow, refunded, is still on record
C14_Witness ==
    /\ escrow_count = 1
    /\ escrows_by_invoice[1] = 1
    /\ escrows[1].status = "Refunded"
    /\ last.op = "create_escrow"
    /\ last.panic = "Escrow already exists for this invoice"

\* ----------------------------------------------------------------- C15
\* C15: an escrow is created with funds_deposited = FALSE; the flag, once
\* TRUE, stays TRUE in every step; and a step that makes it TRUE is a
\* custody notification whose predecessor is the token contract, whose
\* sender is the marketplace, whose message is escrow_deposit:<the invoice
\* id of that escrow> and whose amount is at least the escrow's sale amount.
C15_FundsFlag ==
    [][/\ \A e \in (DOMAIN escrows') \ (DOMAIN escrows) : ~escrows'[e].funds_deposited
       /\ \A e \in 1..escrow_count :
             /\ escrows[e].funds_deposited => escrows'[e].funds_deposited
             /\ (~escrows[e].funds_deposited /\ escrows'[e].funds_deposited) =>
                   /\ last'.op = "esc_ft_on_transfer"
                   /\ \A n \in EscNotifications :
                         EscFtOnTransfer(n[1], n[2], n[3], n[4]) =>
                            /\ n[1] = USDC
                            /\ n[2] = MARKETPLACE
                            /\ n[4].parts >= 2
                            /\ n[4].action = "escrow_deposit"
                            /\ n[4].id = escrows[e].invoice_id
                            /\ n[3] >= escrows[e].sale_amount]_vars

\* The one escrow there is, Active, has just been funded by a notification
C15_Witness ==
    /\ escrow_count = 1
    /\ escrows[1].status = "Active"
    /\ escrows[1].funds_deposited
    /\ last.op = "esc_ft_on_transfer"
    /\ last.ok

\* ----------------------------------------------------------------- C16
\* C16: a custody notification from the token contract with sender the
\* marketplace whose message names no escrow (it is not
\* escrow_deposit:<invoice id of an escrow>), or names one and brings less
\* than its sale amount, completes and leaves every escrow as it was.
C16_NoOpAccepted ==
    [][last'.op = "esc_ft_on_transfer" =>
          \A n \in EscNotifications :
             LET named == {e \in 1..escrow_count :
                              /\ n[4].parts >= 2 /\ n[4].action = "escrow_deposit"
                              /\ escrows[e].invoice_id = n[4].id} IN
             (/\ n[1] = USDC /\ n[2] = MARKETPLACE
              /\ \/ named = {}
                 \/ \E e \in named : n[3] < escrows[e].sale_amount
              /\ EscFtOnTransfer(n[1], n[2], n[3], n[4]))
                => last'.ok /\ escrows' = escrows]_vars

\* C16 as the code has it: such a notification whose message names no
\* escrow completes and leaves every escrow as it was; one that names an
\* escrow and brings less than its sale amount panics with "Insufficient
\* deposit amount", and leaves every escrow as it was.
C16_UnmatchedAccepted ==
    [][last'.op = "esc_ft_on_transfer" =>
          \A n \in EscNotifications :
             LET named == {e \in 1..escrow_count :
                              /\ n[4].parts >= 2 /\ n[4].action = "escrow_deposit"
                              /\ escrows[e].invoice_id = n[4].id} IN
             (/\ n[1] = USDC /\ n[2] = MARKETPLACE
              /\ EscFtOnTransfer(n[1], n[2], n[3], n[4]))
                => /\ named = {} => (last'.ok /\ escrows' = escrows)
                   /\ (\E e \in named : n[3] < escrows[e].sale_amount) =>
                         /\ last'.panic = "Insufficient deposit amount"
                         /\ escrows' = escrows]_vars

\* A notification for the one escrow there is, not yet funded, has just been
\* refused for its amount
C16_Witness ==
    /\ escrow_count = 1
    /\ ~escrows[1].funds_deposited
    /\ last.op = "esc_ft_on_transfer"
    /\ last.panic = "Insufficient deposit amount"

\* ----------------------------------------------------------------- C17
\* C17: a custody notification from the token contract with sender the
\* marketplace whose message names no escrow completes and returns the
\* whole incoming amount: nothing of it is kept.
C17_UnmatchedReturned ==
    [][last'.op = "esc_ft_on_transfer" =>
          \A n \in EscNotifications :
             LET named == {e \in 1..escrow_count :
                              /\ n[4].parts >= 2 /\ n[4].action = "escrow_deposit"
                              /\ escrows[e].invoice_id = n[4].id} IN
             (/\ n[1] = USDC /\ n[2] = MARKETPLACE
              /\ named = {}
              /\ EscFtOnTransfer(n[1], n[2], n[3], n[4]))
                => last'.ok /\ last'.ret = n[3]]_vars

C19_DeactivatedOnce ==
    [][/\ \A l \in (DOMAIN listings) \cap (DOMAIN listings') :
             ~listings[l].active => ~listings'[l].active
       /\ (/\ last'.ok
           /\ last'.op \in {"mkt_ft_on_transfer", "buy_invoice", "cancel_listing",
                             "accept_bid"}) =>
             \E l \in DOMAIN listings :
                /\ listings[l].active
                /\ ~listings'[l].active
                /\ \A k \in DOMAIN listings \ {l} : listings'[k] = listings[k]
       /\ \A c \in promises' \ promises :
             c.op \in {"purchase", "buy_invoice", "accept_bid"} =>
                /\ listings[c.id].active
                /\ ~listings'[c.id].active
                /\ promises' = promises \cup {c}]_vars

\* cancel_listing has just been refused on a listing that was sold: the
\* chain of its sale was started
C19_Witness ==
    /\ last.op = "cancel_listing"
    /\ last.panic = "Listing is not active"
    /\ \E c \in promises :
          /\ c.op \in {"purchase", "buy_invoice", "accept_bid"}
          /\ ~listings[c.id].active

\* ----------------------------------------------------------------- C20
\* C20: no step changes the creator, the amount or the due date of an
\* invoice.  A step that changes the owner of an invoice is a
\* transfer_invoice that completes, called by the marketplace on that
\* invoice, Listed, and it leaves the invoice Sold and owned by the new owner
\* it was given.
C20_OwnerChange ==
    [][\A i \in 1..invoice_count :
          /\ invoices'[i].creator = invoices[i].creator
          /\ invoices'[i].amount = invoices[i].amount
          /\ invoices'[i].due_date = invoices[i].due_date
          /\ invoices'[i].owner # invoices[i].owner =>
                /\ last'.op = "transfer_invoice" /\ last'.ok
                /\ invoices[i].status = "Listed"
                /\ invoices'[i].status = "Sold"
                /\ \A caller \in RegistryCallers, a \in Users :
                      InvoiceCall("transfer_invoice", caller, i, a) =>
                         caller = MARKETPLACE /\ invoices'[i].owner = a]_vars

\* ----------------------------------------------------------------- C21
\* C21: a registry method called on an invoice completes only for a caller
\* of its role: set_listed and unlist_invoice for the invoice's owner or the
\* marketplace, transfer_invoice for the marketplace, mark_settled for the
\* escrow engine or the marketplace, cancel_invoice for the owner; called by
\* any other account it panics and leaves every invoice as it was.
C21_RoleGating ==
    [][last'.op \in InvoiceMethods =>
          \A caller \in RegistryCallers, i \in 1..invoice_count, a \in Users :
             LET m == last'.op
                 allowed ==
                    CASE m \in {"set_listed", "unlist_invoice"} ->
                            caller \in {invoices[i].owner, MARKETPLACE}
                      [] m = "transfer_invoice" -> caller = MARKETPLACE
                      [] m = "mark_settled" -> caller \in {ESCROW, MARKETPLACE}
                      [] m = "cancel_invoice" -> caller = invoices[i].owner
             IN (InvoiceCall(m, caller, i, a) /\ ~allowed)
                   => ~last'.ok /\ invoices' = invoices]_vars

\* ----------------------------------------------------------------- C22
\* C22: settle called by an account that is not the escrow's seller, its
\* buyer or the admin; open_dispute called by an account that is not the
\* buyer or the seller (the admin included) or with an empty reason;
\* resolve_dispute called by an account that is not the admin or naming a
\* winner that is not the escrow's buyer or seller: each panics, leaves every
\* escrow as it was and starts no promise.
C22_EscrowRoles ==
    [][/\ last'.op = "settle" =>
             \A caller \in EscrowCallers, e \in 1..escrow_count :
                (/\ caller \notin {escrows[e].seller, escrows[e].buyer, ADMIN}
                 /\ Settle(caller, e))
                   => ~last'.ok /\ escrows' = escrows /\ promises' = promises
       /\ last'.op = "open_dispute" =>
             \A caller \in EscrowCallers, e \in 1..escrow_count, reason \in {"", "late"} :
                (/\ caller \notin {escrows[e].buyer, escrows[e].seller} \/ reason = ""
                 /\ OpenDispute(caller, e, reason))
                   => ~last'.ok /\ escrows' = escrows /\ promises' = promises
       /\ last'.op = "resolve_dispute" =>
             \A caller \in Resolvers, e \in 1..escrow_count,
                winner \in Winners(EscrowCallers) :
                (/\ caller # ADMIN \/ winner \notin {escrows[e].buyer, escrows[e].seller}
                 /\ ResolveDispute(caller, e, winner))
                   => ~last'.ok /\ escrows' = escrows /\ promises' = promises]_vars

\* The admin's resolve_dispute has just been refused on a funded Disputed
\* escrow for a winner that is no party of it
C22_Witness ==
    /\ escrow_count = 1
    /\ escrows[1].status = "Disputed"
    /\ escrows[1].funds_deposited
    /\ last.op = "resolve_dispute"
    /\ last.panic = "Winner must be buyer or seller"

\* ----------------------------------------------------------------- C23
\* C23: simulate_debtor_payment has one guard, status = Active, whoever
\* calls it: on an Active escrow it completes with what settle does to that
\* escrow (status Released, settled now, and one chain started that pushes
\* the sale amount to the buyer and then calls mark_settled), and on an
\* escrow that is not Active it panics, leaves every escrow as it was and
\* starts no promise.
C23_SimulateIsSettle ==
    [][last'.op = "simulate_debtor_payment" =>
          \A caller \in EscrowCallers, e \in 1..escrow_count :
             SimulateDebtorPayment(caller, e) =>
                IF escrows[e].status = "Active"
                THEN /\ last'.ok
                     /\ escrows' = [escrows EXCEPT ![e].status = "Released",
                                                   ![e].settled_at = now]
                     /\ promises' = promises \cup
                           {Chain("settle", ESCROW, e,
                                  <<FtTransferCall(escrows[e].buyer, escrows[e].sale_amount, 0, e),
                                    InvoiceCallTo("mark_settled", escrows[e].invoice_id, "")>>)}
                ELSE ~last'.ok /\ escrows' = escrows /\ promises' = promises]_vars

\* ----------------------------------------------------------------- C24
\* C24: mark_overdue on an Active escrow when the time is past its due date
\* completes, whoever calls it: the escrow is Disputed with a non-empty
\* reason recorded and the other escrows are as they were; on an escrow that
\* is not Active or not past its due date it panics and leaves every escrow
\* as it was.  check_overdue is true exactly when the status is Active and
\* the time is greater than the due date.
C24_MarkOverdue ==
    /\ [][last'.op = "mark_overdue" =>
             \A caller \in EscrowCallers, e \in 1..escrow_count :
                MarkOverdue(caller, e) =>
                   IF escrows[e].status = "Active" /\ now > escrows[e].due_date
                   THEN /\ last'.ok
                        /\ escrows'[e].status = "Disputed"
                        /\ escrows'[e].dispute_reason \notin {"", NoReason}
                        /\ \A k \in 1..escrow_count : k # e => escrows'[k] = escrows[k]
                   ELSE ~last'.ok /\ escrows' = escrows]_vars
    /\ [](\A e \in 1..escrow_count :
            check_overdue(e) <=> (escrows[e].status = "Active" /\ now > escrows[e].due_date))

\* ----------------------------------------------------------------- C25
\* C25: a listing is confirmed when on_list_callback completes for it.  A
\* listing that is active when it is confirmed references an invoice of the
\* registry, and its seller, the caller of list_invoice, is the owner of that
\* invoice: no list_invoice by another account than the owner ends in a
\* confirmed active listing.
C25_SellerIsOwner ==
    [][(last'.op = "on_list_callback" /\ last'.ok) =>
          \A c \in promises :
             LET l == Head(c.calls).lst IN
             (RunOnListCallback(c) /\ l \in DOMAIN listings' /\ listings'[l].active) =>
                /\ InvoiceExists(listings'[l].invoice_id)
                /\ listings'[l].seller = invoices[listings'[l].invoice_id].owner]_vars

\* ----------------------------------------------------------------- C26
\* C26: in each ledger the ids come from the ledger's counter, which never
\* decreases.  Every id in use is between 1 and the counter, the bids of a
\* listing have increasing ids and no two bids share an id.  A step that
\* adds a record adds one, under the id counter + 1, and advances the counter
\* by one; no other step changes a counter: not a creation that panics, and
\* not an on_list_callback that fails, after which the id of its listing is
\* never given again.
C26_IdsNeverReused ==
    /\ [](/\ DOMAIN invoices = 1..invoice_count
          /\ DOMAIN listings \subseteq 1..listing_count
          /\ DOMAIN escrows = 1..escrow_count
          /\ \A l \in ListingIds :
                \A k \in 1..Len(bids[l]) :
                   /\ bids[l][k].id \in 1..bid_count
                   /\ \A j \in 1..Len(bids[l]) : j < k => bids[l][j].id < bids[l][k].id
                   /\ \A l2 \in ListingIds \ {l} :
                         \A j \in 1..Len(bids[l2]) : bids[l2][j].id # bids[l][k].id)
    /\ [][LET Added(count, count_after, new) ==
                 IF new = {} THEN count_after = count
                 ELSE count_after = count + 1 /\ new = {count + 1}
              BidIdsIn(b) == UNION {{b[l][k].id : k \in 1..Len(b[l])} : l \in ListingIds}
          IN
          /\ Added(invoice_count, invoice_count', (DOMAIN invoices') \ (DOMAIN invoices))
          /\ Added(listing_count, listing_count', (DOMAIN listings') \ (DOMAIN listings))
          /\ Added(bid_count, bid_count', BidIdsIn(bids') \ BidIdsIn(bids))
          /\ Added(escrow_count, escrow_count', (DOMAIN escrows') \ (DOMAIN escrows))
          /\ ~last'.ok =>
                UNCHANGED <<invoice_count, listing_count, bid_count, escrow_count>>]_vars

\* Each ledger has given its second id, and the callback of a listing has
\* just failed: set_listed had failed for it
C26_Witness ==
    /\ invoice_count = 2 /\ bid_count = 2 /\ escrow_count = 2
    /\ listing_count = 2 /\ DOMAIN listings = {1, 2}
    /\ \E l \in ListingIds : Len(bids[l]) = 2 /\ bids[l][1].id = 1 /\ bids[l][2].id = 2
    /\ last.op = "on_list_callback"
    /\ ~last.ok

\* ----------------------------------------------------------------- C27
\* C27: a receipt that panics leaves the three ledgers as they were,
\* counters and lookups included, and starts no promise chain (a chain in
\* flight has at most lost the call that failed).  So does create_invoice
\* given an empty debtor name, description or documents hash, amount 0, or a
\* due date that is not after the block time: it panics, the invoice counter
\* and the invoices (and so what is indexed of them by creator and owner)
\* are as they were.
C27_RejectedUnchanged ==
    [][/\ ~last'.ok =>
             /\ UNCHANGED <<invVars, mktVars, escVars>>
             /\ promises' \in {promises} \cup {Advance(c, FALSE) : c \in promises}
       /\ last'.op = "create_invoice" =>
             \A caller \in Users, t \in InvoiceInputs :
                (/\ t[3] = "" \/ t[4] = "" \/ t[6] = "" \/ t[2] = 0 \/ t[5] <= now
                 /\ CreateInvoice(caller, t[1], t[2], t[3], t[4], t[5], t[6]))
                   => ~last'.ok /\ UNCHANGED <<invVars, promises>>]_vars

\* create_invoice has just been refused for its amount: no invoice is on
\* record and the counter is 0
C27_Witness ==
    /\ last.op = "create_invoice"
    /\ last.panic = "Amount must be greater than 0"
    /\ invoice_count = 0
    /\ invoices = <<>>

\* ----------------------------------------------------------------- C28
\* C28: cancel_listing by the seller of an active listing and cancel_bid by
\* the bidder of an active bid complete, mark that listing (removing the
\* lookup entry of its invoice) or that bid inactive, leave every other
\* listing and bid as it was and start no promise; called by another account
\* or on an inactive target they panic and change nothing.
C28_SingleStep ==
    [][/\ last'.op = "cancel_listing" =>
             \A caller \in Users, l \in ListingIds :
                CancelListing(caller, l) =>
                   IF ListingExists(l) /\ listings[l].seller = caller /\ listings[l].active
                   THEN /\ last'.ok
                        /\ listings' = [listings EXCEPT ![l].active = FALSE]
                        /\ listings_by_invoice' =
                              [listings_by_invoice EXCEPT ![listings[l].invoice_id] = None]
                        /\ UNCHANGED <<bids, listing_count, bid_count>>
                        /\ promises' = promises
                   ELSE ~last'.ok /\ UNCHANGED <<mktVars, promises>>
       /\ last'.op = "cancel_bid" =>
             \A caller \in Users, l \in ListingIds, bid_id \in BidIds :
                CancelBid(caller, l, bid_id) =>
                   LET hits == {k \in 1..Len(bids[l]) :
                                   /\ bids[l][k].id = bid_id
                                   /\ bids[l][k].bidder = caller
                                   /\ bids[l][k].active} IN
                   IF hits # {}
                   THEN /\ last'.ok
                        /\ \E k \in hits : bids' = [bids EXCEPT ![l][k].active = FALSE]
                        /\ UNCHANGED <<listings, listings_by_invoice, listing_count, bid_count>>
                        /\ promises' = promises
                   ELSE ~last'.ok /\ UNCHANGED <<mktVars, promises>>]_vars

\* C28 as the code has it: the same, but cancel_listing starts one promise,
\* the call of unlist_invoice for the listing's invoice on the registry;
\* cancel_bid starts none.
C28_CancelFrame ==
    [][/\ last'.op = "cancel_listing" =>
             \A caller \in Users, l \in ListingIds :
                CancelListing(caller, l) =>
                   IF ListingExists(l) /\ listings[l].seller = caller /\ listings[l].active
                   THEN /\ last'.ok
                        /\ listings' = [listings EXCEPT ![l].active = FALSE]
                        /\ listings_by_invoice' =
                              [listings_by_invoice EXCEPT ![listings[l].invoice_id] = None]
                        /\ UNCHANGED <<bids, listing_count, bid_count>>
                        /\ promises' = promises \cup
                              {Chain("cancel_listing", MARKETPLACE, l,
                                     <<InvoiceCallTo("unlist_invoice",
                                                     listings[l].invoice_id, "")>>)}
                   ELSE ~last'.ok /\ UNCHANGED <<mktVars, promises>>
       /\ last'.op = "cancel_bid" =>
             \A caller \in Users, l \in ListingIds, bid_id \in BidIds :
                CancelBid(caller, l, bid_id) =>
                   LET hits == {k \in 1..Len(bids[l]) :
                                   /\ bids[l][k].id = bid_id
                                   /\ bids[l][k].bidder = caller
                                   /\ bids[l][k].active} IN
                   IF hits # {}
                   THEN /\ last'.ok
                        /\ \E k \in hits : bids' = [bids EXCEPT ![l][k].active = FALSE]
                        /\ UNCHANGED <<listings, listings_by_invoice, listing_count, bid_count>>
                        /\ promises' = promises
                   ELSE ~last'.ok /\ UNCHANGED <<mktVars, promises>>]_vars

\* The seller has just cancelled a listing: it is inactive, the bid placed
\* on it is still active, and the call of unlist_invoice is in flight
C28_Witness ==
    /\ last.op = "cancel_listing"
    /\ last.ok
    /\ \E c \in promises :
          /\ c.op = "cancel_listing"
          /\ Head(c.calls).m = "unlist_invoice"
          /\ ~listings[c.id].active
          /\ bids[c.id] # <<>>
          /\ bids[c.id][1].active

\* ----------------------------------------------------------------- C29
\* C29: list_invoice given an asking price of 0, or one above the invoice
\* amount it is given, or an invoice that has an active listing, panics and
\* leaves the marketplace and the promises as they were.  Every listing on
\* record has 0 < asking_price <= invoice_amount, and no step changes the
\* asking price or the invoice amount of a listing.
C29_AskingPrice ==
    /\ [](\A l \in DOMAIN listings :
            0 < listings[l].asking_price
               /\ listings[l].asking_price <= listings[l].invoice_amount)
    /\ [][/\ \A l \in (DOMAIN listings) \cap (DOMAIN listings') :
                /\ listings'[l].asking_price = listings[l].asking_price
                /\ listings'[l].invoice_amount = listings[l].invoice_amount
          /\ last'.op = "list_invoice" =>
                \A caller \in MarketSellers, i \in InvoiceIds, t \in MarketTerms :
                   (/\ \/ t[1] = 0
                       \/ t[1] > t[2]
                       \/ \E l \in DOMAIN listings :
                             listings[l].active /\ listings[l].invoice_id = i
                    /\ ListInvoice(caller, i, t[1], t[2], t[3], t[4], t[5]))
                      => ~last'.ok /\ UNCHANGED <<mktVars, promises>>]_vars

\* list_invoice has just been refused for an asking price above the invoice
\* amount, when a listing at the invoice amount itself is on record, inactive
C29_Witness ==
    /\ last.op = "list_invoice"
    /\ last.panic = "Asking price cannot exceed invoice amount"
    /\ \E l \in DOMAIN listings :
          /\ ~listings[l].active
          /\ listings[l].asking_price = listings[l].invoice_amount

\* ----------------------------------------------------------------- C30
\* C30: the bids of a listing are a sequence that only grows at its end: no
\* step removes a bid or changes the place, the id, the bidder or the amount
\* of one, and no step makes an inactive bid active.  An accept_bid that
\* completes takes its listing from active to inactive, and no step makes an
\* inactive listing active: for a listing at most one accept_bid ever
\* completes.  place_bid on an inactive listing, by the listing's seller, or
\* with an amount below the listing's minimum price panics and leaves the
\* bids and the bid counter as they were.
C30_BidsAppendOnly ==
    [][/\ \A l \in ListingIds :
             /\ Len(bids'[l]) >= Len(bids[l])
             /\ \A k \in 1..Len(bids[l]) :
                   /\ bids'[l][k].id = bids[l][k].id
                   /\ bids'[l][k].bidder = bids[l][k].bidder
                   /\ bids'[l][k].amount = bids[l][k].amount
                   /\ ~bids[l][k].active => ~bids'[l][k].active
       /\ \A l \in (DOMAIN listings) \cap (DOMAIN listings') :
             ~listings[l].active => ~listings'[l].active
       /\ (last'.op = "accept_bid" /\ last'.ok) =>
             \A caller \in Users, l \in ListingIds, bid_id \in 1..MaxRecords :
                AcceptBid(caller, l, bid_id) =>
                   listings[l].active /\ ~listings'[l].active
       /\ last'.op = "place_bid" =>
             \A caller \in Users, deposit \in Deposits, l \in DOMAIN listings,
                amount \in BidAmounts :
                (/\ \/ ~listings[l].active
                    \/ listings[l].seller = caller
                    \/ listings[l].min_price # None /\ amount < listings[l].min_price
                 /\ PlaceBid(caller, deposit, l, amount))
                   => ~last'.ok /\ UNCHANGED <<bids, bid_count>>]_vars

\* A listing has two bids, in the order they were placed; the first was
\* cancelled and the second has just been accepted
C30_Witness ==
    /\ last.op = "accept_bid"
    /\ last.ok
    /\ \E l \in DOMAIN listings :
          /\ ~listings[l].active
          /\ Len(bids[l]) = 2
          /\ bids[l][1].id = 1 /\ ~bids[l][1].active
          /\ bids[l][2].id = 2 /\ ~bids[l][2].active
          /\ \E c \in promises :
                c.op = "accept_bid" /\ c.id = l /\ c.calls[2].x = bids[l][2].amount

\* ----------------------------------------------------------------- C31
\* C31: a create_invoice that completes was given an amount > 0, a due date
\* after the block timestamp and non-empty debtor name, description and
\* documents hash, and adds an invoice with status Draft, owner = creator and
\* a risk score of at most 99 that is the same at every block timestamp that
\* leaves the same days until due: the score of the amount and the days
\* alone.
C31_RiskDeterministic ==
    [][\A caller \in {"alice"}, t \in RiskInputs :
          (CreateInvoice(caller, t[1], t[2], t[3], t[4], t[5], t[6]) /\ last'.ok)
             => LET new == invoices'[invoice_count'] IN
                /\ t[2] > 0 /\ t[5] > now /\ t[3] # "" /\ t[4] # "" /\ t[6] # ""
                /\ new.status = "Draft" /\ new.owner = caller /\ new.creator = caller
                /\ new.risk_score <= 99
                /\ \A at \in 0..MaxTime :
                      days_until_due(t[5], at) = days_until_due(t[5], now)
                         => risk_score(t[2], days_until_due(t[5], at), at) = new.risk_score]_vars

\* C31 (amended): a create_invoice that completes was given an amount > 0, a
\* due date after the block timestamp and non-empty debtor name, description
\* and documents hash, and adds an invoice with status Draft, owner =
\* creator and a risk score within the band of the tier of its amount and
\* days until due: 20..29, 40..54, 55..69 or 70..89, so at most 99.
C31_RiskBand ==
    [][\A caller \in {"alice"}, t \in RiskInputs :
          (CreateInvoice(caller, t[1], t[2], t[3], t[4], t[5], t[6]) /\ last'.ok)
             => LET new == invoices'[invoice_count']
                    days == days_until_due(t[5], now) IN
                /\ t[2] > 0 /\ t[5] > now /\ t[3] # "" /\ t[4] # "" /\ t[6] # ""
                /\ invoice_count' = invoice_count + 1
                /\ new.status = "Draft" /\ new.owner = caller /\ new.creator = caller
                /\ new.amount = t[2] /\ new.due_date = t[5]
                /\ new.risk_score <= 99
                /\ new.risk_score \in
                      IF t[2] < 1000000 /\ days < 30 THEN 20..29
                      ELSE IF t[2] < 5000000 /\ days < 60 THEN 40..54
                      ELSE IF t[2] < 10000000 /\ days < 90 THEN 55..69
                      ELSE 70..89]_vars

\* two invoices of the same amount and due date, created a second apart
\* with the same days until due, with different risk scores
C31_Witness ==
    /\ invoice_count = 2
    /\ last.op = "create_invoice" /\ last.ok
    /\ invoices[1].amount = invoices[2].amount
    /\ invoices[1].due_date = invoices[2].due_date
    /\ days_until_due(invoices[1].due_date, 0) = days_until_due(invoices[1].due_date, MaxTime)
    /\ invoices[1].risk_score # invoices[2].risk_score

\* ----------------------------------------------------------------- C32
\* C32: set_marketplace_contract and set_escrow_contract called by an
\* account panic and leave both configured identities as they were, so the
\* identities transfer_invoice and mark_settled compare their caller with
\* are never an account's.
C32_SettersGated ==
    /\ [][\A caller \in Users, a \in {MARKETPLACE, ESCROW} \cup Users :
             (SetMarketplaceContract(caller, a) \/ SetEscrowContract(caller, a))
                => /\ ~last'.ok
                   /\ UNCHANGED <<inv_marketplace_contract, inv_escrow_contract>>]_vars
    /\ [](inv_marketplace_contract \notin Users /\ inv_escrow_contract \notin Users)

\* ----------------------------------------------------------------- C33
\* C33: the escrow engine issues a fund push (an ft_transfer chain of its
\* own) only in a step that takes an escrow from Active or Disputed to
\* Released or Refunded, one push in that step, of the escrow's sale amount:
\* to the buyer when settle or simulate_debtor_payment released it or the
\* dispute was resolved for the buyer, to the seller when the dispute was
\* resolved for the seller.  A Released or Refunded escrow never changes
\* again, so over its lifetime an escrow has at most one push, none while it
\* is Active or Disputed and none after it is Released or Refunded.
C33_OnePush ==
    [][LET issued == {c \in promises' \ promises :
                         c.pred = ESCROW /\ c.prev = "none"
                            /\ Head(c.calls).m = "ft_transfer"}
           paying == last'.ok /\ last'.op \in {"settle", "simulate_debtor_payment",
                                                "resolve_dispute"}
       IN /\ \A e \in 1..escrow_count :
                escrows[e].status \in {"Released", "Refunded"} => escrows'[e] = escrows[e]
          /\ issued # {} => paying
          /\ paying => Cardinality(issued) = 1
          /\ \A c \in issued :
                LET e == c.id
                    push == Head(c.calls) IN
                /\ e \in 1..escrow_count
                /\ escrows[e].status \in {"Active", "Disputed"}
                /\ escrows'[e].status \in {"Released", "Refunded"}
                /\ \A k \in 1..escrow_count : k # e => escrows'[k] = escrows[k]
                /\ push.esc = e
                /\ push.x = escrows[e].sale_amount
                /\ push.a = IF last'.op = "resolve_dispute" /\ escrows'[e].status = "Released"
                            THEN escrows[e].seller
                            ELSE escrows[e].buyer
                /\ last'.op # "resolve_dispute" => escrows[e].status = "Active"
                /\ last'.op = "resolve_dispute" => escrows[e].status = "Disputed"]_vars

\* a dispute resolved for the seller: the push of the sale amount to the
\* seller in flight, the escrow Released
C33_Witness ==
    /\ last.op = "resolve_dispute" /\ last.ok
    /\ \E c \in promises :
          /\ c.op = "resolve_dispute" /\ c.prev = "none"
          /\ escrows[c.id].status = "Released"
          /\ Head(c.calls).a = escrows[c.id].seller
          /\ Head(c.calls).x = escrows[c.id].sale_amount

\* ----------------------------------------------------------------- C34
\* C34: once the chain of a purchase by custody notification has succeeded
\* in each of its calls (the tokens pushed to the escrow engine, the invoice
\* Sold and owned by the buyer, the escrow created), the escrow it created
\* eventually has funds_deposited = TRUE, with no deposit but the purchase's
\* own push.
C34_PurchaseFunded ==
    \A e \in EscrowIds :
        (/\ EscrowExists(e)
         /\ InvoiceExists(escrows[e].invoice_id)
         /\ invoices[escrows[e].invoice_id].status = "Sold"
         /\ invoices[escrows[e].invoice_id].owner = escrows[e].buyer)
            ~> (EscrowExists(e) /\ escrows[e].funds_deposited)

\* ----------------------------------------------------------------- C35
\* C35: a purchase (by notification or buy_invoice) or an accept_bid
\* completes on a listing only while the listing's invoice has status
\* Listed: not before the registry has marked it listed, and not on a
\* listing whose set_listed failed.
C35_SoldWhileListed ==
    [][(last'.ok /\ last'.op \in {"mkt_ft_on_transfer", "buy_invoice", "accept_bid"})
          => \A l \in DOMAIN listings :
                (listings[l].active /\ ~listings'[l].active)
                   => /\ InvoiceExists(listings[l].invoice_id)
                      /\ invoices[listings[l].invoice_id].status = "Listed"]_vars

\* ----------------------------------------------------------------- C36
\* C36: the tokens the escrow engine holds (the amounts of the notifications
\* it accepted less the amounts its pushes moved out) cover the sale amounts
\* of its funded Active and Disputed escrows, in every state.  Step by step:
\* what the engine answers for (those sale amounts and its pushes in flight)
\* is 0 at first, grows by no more than the amount of a notification it
\* accepts, falls by the amount of a push that succeeds on the token, and
\* grows in no other step.
C36_Solvency ==
    /\ [](Owed >= SaleAmounts(FundedOpen) /\ (escrow_count = 0 => Owed = 0))
    /\ [][IF last'.op = "esc_ft_on_transfer" /\ last'.ok
          THEN \A n \in EscNotifications :
                  EscFtOnTransfer(n[1], n[2], n[3], n[4]) => Owed' <= Owed + n[3]
          ELSE IF last'.op = "ft_transfer" /\ last'.ok
          THEN \A c \in PushesInFlight :
                  promises' = Advance(c, TRUE) => Owed' <= Owed - Head(c.calls).x
          ELSE Owed' <= Owed]_vars

\* a notification accepted for an escrow, whose sale amount the engine now
\* answers for
C36_Witness ==
    /\ last.op = "esc_ft_on_transfer" /\ last.ok
    /\ FundedOpen # {}
    /\ Owed = SaleAmounts(FundedOpen)
    /\ Owed > 0

\* ----------------------------------------------------------------- C37
\* C37: when the push issued by settle or resolve_dispute fails on the
\* token, the escrow is not left Released or Refunded, and the mark_settled
\* that follows the push in the chain marks the invoice Settled only when
\* the push succeeded.
C37_SettledAfterPayout ==
    [][\A c \in promises :
          /\ (c.pred = ESCROW /\ RunFtTransfer(c, FALSE))
                => escrows'[c.id].status \notin {"Released", "Refunded"}
          /\ (c.pred = ESCROW /\ RunInvoiceCall(c) /\ last'.ok)
                => c.prev = "ok"]_vars

\* ----------------------------------------------------------------- C38
\* C38: with the registry's configured identities as constructed, in every
\* state an invoice with status Settled has an escrow under its id and that
\* escrow is Released, and the invoice of a Refunded escrow is not Settled.
C38_SettledIsReleased ==
    /\ \A i \in 1..invoice_count :
          invoices[i].status = "Settled"
             => /\ EscrowOf(i) # 0
                /\ escrows[EscrowOf(i)].invoice_id = i
                /\ escrows[EscrowOf(i)].status = "Released"
    /\ \A e \in 1..escrow_count :
          (escrows[e].status = "Refunded" /\ InvoiceExists(escrows[e].invoice_id))
             => invoices[escrows[e].invoice_id].status # "Settled"

\* an invoice Settled by the chain of a dispute resolved for the seller
C38_Witness ==
    /\ last.op = "mark_settled" /\ last.ok
    /\ invoices[1].status = "Settled"
    /\ escrows[EscrowOf(1)].status = "Released"
    /\ escrows[EscrowOf(1)].dispute_reason # NoReason

\* ----------------------------------------------------------------- C39
\* C39: every escrow the marketplace's chains create (for a purchase or an
\* accepted bid) has a sale amount greater than 0 and not greater than the
\* invoice amount recorded in it.
C39_SaleAmountBounded ==
    \A e \in 1..escrow_count :
        /\ escrows[e].sale_amount > 0
        /\ escrows[e].sale_amount <= escrows[e].invoice_amount

\* ----------------------------------------------------------------- C40
\* C40: no invoice ever has status Disputed; open_dispute, mark_overdue and
\* resolve_dispute change no invoice in their own step (the chain of a
\* dispute resolved for the seller later moves the invoice from Sold to
\* Settled); and while an escrow is Disputed its invoice exists and has
\* status Sold.
C40_InvoiceNeverDisputed ==
    /\ [](\A i \in 1..invoice_count : invoices[i].status # "Disputed")
    /\ [][last'.op \in {"open_dispute", "mark_overdue", "resolve_dispute"}
             => invoices' = invoices]_vars
    /\ [](\A e \in 1..escrow_count :
             escrows[e].status = "Disputed"
                => /\ InvoiceExists(escrows[e].invoice_id)
                   /\ invoices[escrows[e].invoice_id].status = "Sold")

====
